---- MODULE Spec2Model ----
(***************************************************************************)
(* lovshot capture-to-export pipeline.                                     *)
(*                                                                         *)
(* The shared session (AppState behind one Mutex) and the threads that     *)
(* work on it: the tauri commands of commands/recording.rs, the capture    *)
(* loop spawned by start_recording and the export thread spawned by        *)
(* export_gif (commands/export.rs).  Every critical section of the mutex   *)
(* is one atomic action; what a thread does between two critical sections  *)
(* (a screen capture, a sleep, an encode) is a step of its own.            *)
(***************************************************************************)
EXTENDS Integers, Sequences, FiniteSets, TLC

\* ---- bounds of the model ----
MaxLoops == 2
MaxCaptures == 2
\* in the export runs: recordings started and frames captured while an
\* export is under way, and frames recorded before it
ExpLoops == 1
ExpCaptures == 1
MaxPrerecorded == 3
\* in the resampling runs: the longest buffer exported
MaxFrames == 25
\* the size in pixels of the images a capture of the selected region returns
RegionWidth == 5
RegionHeight == 36
\* in the scroll runs: the rows of the page under the region, and the frames
\* of one scroll session
PageRows == 60
MaxScrollFrames == 3
\* in the stitching runs: the stitches made onto one composite
MaxStitches == 1
\* the tallest capture whose search range is computed
MaxHeight == 450

\* s.recording_fps: never written by a command, the default of AppState
RecordingFps == 30

Loops == 1..MaxLoops
\* the selections the UI can hand to set_region
Regions == {"r1"}
\* the selections the UI can hand to open_scroll_overlay: the one above, one
\* that is a pixel narrower and one too short for any offset to be tried
ScrollRegions == Regions \cup {"narrow", "short"}

\* the pages the screen can show while a scroll session runs, and the steps
\* in rows by which the user scrolls them
Pages == {"blank", "ruled", "text"}
ScrollSteps == {5, -5}

\* Option<Region>::None
NoRegion == "None"
\* a capture-loop local that holds no image
NoFrame == [sess |-> -1, t |-> 0, w |-> 0, h |-> 0]

VARIABLES
    recording,      \* AppState.recording
    region,         \* AppState.region (NoRegion or a region)
    frames,         \* AppState.frames, each frame tagged with the loop that
                    \* captured it and the instant of its capture, with its
                    \* width and height
    nspawned,       \* number of capture threads spawned so far
    pc,             \* position of each capture thread
    img,            \* the image a capture thread holds between capture and push
    sawRecording,   \* the current tick's poll read s.recording as true
    frameCount,     \* the frame_count local read at the last poll
    clock,          \* number of successful captures so far (capture instants)
    stateEmits,     \* number of 'recording-state' events emitted
    stoppedEmits,   \* 'recording-stopped' events emitted by each thread
    stoppedPayload, \* frame_count carried by each thread's 'recording-stopped'
    lateAppend,     \* a thread pushed a frame after its 'recording-stopped'
    startResult,    \* what the last start_recording call returned
    \* the export_gif invocation under way and its thread
    epc,            \* position of the export thread
    config,         \* the ExportConfig of the invocation
    allFrames,      \* all_frames: the clone of s.frames the thread owns
    finalFrames,    \* final_frames: what the thread is about to encode
    encoded,        \* the frames written to the encoder so far
    exportLog,      \* 'export-progress' / 'export-complete' events, in order
    callFrames,     \* s.frames as it was when export_gif was called
    sampledFrames,  \* sampled_frames: the thread's frames after resampling
    scaledFrames,   \* scaled_frames: the thread's frames after resizing
    outFile,        \* the output file: "none" or "created"
    canvas,         \* <<width, height>> the Encoder was created with
    delays,         \* frame.delay of every frame written to the encoder
    estimate,       \* what the last estimate_export_size call returned
    \* the scroll session and the screen under it
    scroll_capturing, \* AppState.scroll_capturing
    scroll_frames,    \* AppState.scroll_frames: the images captured so far
    scroll_offsets,   \* AppState.scroll_offsets
    scroll_stitched,  \* AppState.scroll_stitched: <<>> (None) or <<image>>
    page,             \* the page the screen shows
    scrollTop,        \* the page row at the top edge of the region
    accepted,         \* the deltas stitched since the last start_scroll_capture
    scrollResult,     \* what the last scroll command returned
    \* the mutex of the session and the threads that take it
    mutex,            \* "free" or the thread that holds the lock
    thr               \* of every thread: where it is and what it holds

recVars == <<recording, region, frames, nspawned, pc, img, sawRecording,
             frameCount, clock, stateEmits, stoppedEmits, stoppedPayload,
             lateAppend, startResult>>

expVars == <<epc, config, allFrames, finalFrames, encoded, exportLog,
             callFrames, sampledFrames, scaledFrames, outFile, canvas, delays,
             estimate>>

lockVars == <<mutex, thr>>

scrollData == <<scroll_capturing, scroll_frames, scroll_offsets,
                scroll_stitched, page, scrollTop, accepted, scrollResult>>

scrollVars == <<scrollData, lockVars>>

vars == <<recVars, expVars, scrollVars>>

\* ---- ExportConfig ----
\* speed is speedNum/speedDen, output_scale is in hundredths
NoConfig ==
    [start_frame |-> 0, end_frame |-> 0, target_fps |-> 0, speedNum |-> 1,
     speedDen |-> 1, output_scale |-> 100, loop_mode |-> "infinite"]

\* no estimate_export_size call has returned yet
NoEstimate == [frame_count |-> -1, output_width |-> -1, output_height |-> -1]

\* what a scroll command returned: Err(why), Ok(Some(progress)), or Ok of
\* nothing more
NoResult ==
    [op |-> "none", ok |-> FALSE, some |-> FALSE, frame_count |-> 0,
     total_height |-> 0, error |-> "none"]
Failed(op, why) ==
    [op |-> op, ok |-> FALSE, some |-> FALSE, frame_count |-> 0,
     total_height |-> 0, error |-> why]
Returned(op, count, height) ==
    [op |-> op, ok |-> TRUE, some |-> TRUE, frame_count |-> count,
     total_height |-> height, error |-> "none"]
ReturnedNone(op) ==
    [op |-> op, ok |-> TRUE, some |-> FALSE, frame_count |-> 0,
     total_height |-> 0, error |-> "none"]

\* no export_gif call yet
ExportIdle ==
    /\ epc = "idle"
    /\ config = NoConfig
    /\ allFrames = <<>>
    /\ finalFrames = <<>>
    /\ encoded = <<>>
    /\ exportLog = <<>>
    /\ callFrames = <<>>
    /\ sampledFrames = <<>>
    /\ scaledFrames = <<>>
    /\ outFile = "none"
    /\ canvas = <<0, 0>>
    /\ delays = <<>>
    /\ estimate = NoEstimate

\* no scroll session yet
ScrollIdle ==
    /\ scroll_capturing = FALSE
    /\ scroll_frames = <<>>
    /\ scroll_offsets = <<>>
    /\ scroll_stitched = <<>>
    /\ scrollTop = 0
    /\ accepted = <<>>
    /\ scrollResult = NoResult
    /\ mutex = "free"
    /\ thr = <<>>

Configs ==
    { [start_frame |-> 0, end_frame |-> 9, target_fps |-> 30, speedNum |-> 1,
       speedDen |-> 1, output_scale |-> 100, loop_mode |-> "infinite"],
      [start_frame |-> 0, end_frame |-> 9, target_fps |-> 30, speedNum |-> 1,
       speedDen |-> 1, output_scale |-> 50, loop_mode |-> "pingpong"],
      [start_frame |-> 1, end_frame |-> 9, target_fps |-> 15, speedNum |-> 1,
       speedDen |-> 1, output_scale |-> 100, loop_mode |-> "once"],
      [start_frame |-> 2, end_frame |-> 1, target_fps |-> 30, speedNum |-> 2,
       speedDen |-> 1, output_scale |-> 100, loop_mode |-> "infinite"] }

\* the ExportConfigs of the resampling runs
ResampleConfigs ==
    { [start_frame |-> 0, end_frame |-> MaxFrames + 1, target_fps |-> rate[1],
       speedNum |-> rate[2], speedDen |-> rate[3], output_scale |-> out[1],
       loop_mode |-> out[2]] :
        rate \in {<<30, 1, 1>>, <<60, 1, 1>>, <<9, 1, 1>>, <<0, 1, 1>>,
                  <<9, 5, 1>>, <<30, 1, 20>>},
        out \in {<<100, "infinite">>, <<50, "pingpong">>, <<99, "bounce">>,
                 <<53, "once">>} }

\* the sizes of the recorded frames in the resampling runs
FrameSizes == {<<RegionWidth, RegionHeight>>, <<100, 75>>}

\* ---- the capture thread's positions ----
Alive == {"startup", "poll", "capture", "push", "sleep", "cleanup"}
Running == {"poll", "capture", "push", "sleep"}

LoopAlive(l) == pc[l] \in Alive
LoopRunning(l) == pc[l] \in Running

Init ==
    /\ recording = FALSE
    /\ region = NoRegion
    /\ frames = <<>>
    /\ nspawned = 0
    /\ pc = [l \in Loops |-> "unspawned"]
    /\ img = [l \in Loops |-> NoFrame]
    /\ sawRecording = [l \in Loops |-> FALSE]
    /\ frameCount = [l \in Loops |-> 0]
    /\ clock = 0
    /\ stateEmits = 0
    /\ stoppedEmits = [l \in Loops |-> 0]
    /\ stoppedPayload = [l \in Loops |-> 0]
    /\ lateAppend = [l \in Loops |-> FALSE]
    /\ startResult = "none"
    /\ ExportIdle
    /\ ScrollIdle
    /\ page = "blank"

\* ---- commands ----

\* set_region: s.region = Some(region)
SetRegion ==
    /\ \E r \in Regions : region' = r
    /\ UNCHANGED expVars
    /\ UNCHANGED scrollVars
    /\ UNCHANGED <<recording, frames, nspawned, pc, img, sawRecording,
                   frameCount, clock, stateEmits, stoppedEmits,
                   stoppedPayload, lateAppend, startResult>>

\* start_recording that clears the buffer before its checks
StartRecordingErr_ClearsFirst ==
    /\ recording \/ region = NoRegion
    /\ startResult' = IF recording THEN "Already recording"
                      ELSE "No region selected"
    /\ frames' = <<>>
    /\ UNCHANGED expVars
    /\ UNCHANGED scrollVars
    /\ UNCHANGED <<recording, region, nspawned, pc, img, sawRecording,
                   frameCount, clock, stateEmits, stoppedEmits,
                   stoppedPayload, lateAppend>>

\* start_recording, the two early returns
StartRecordingErr ==
    /\ recording \/ region = NoRegion
    /\ startResult' = IF recording THEN "Already recording"
                      ELSE "No region selected"
    /\ UNCHANGED expVars
    /\ UNCHANGED scrollVars
    /\ UNCHANGED <<recording, region, frames, nspawned, pc, img, sawRecording,
                   frameCount, clock, stateEmits, stoppedEmits,
                   stoppedPayload, lateAppend>>

\* start_recording past its checks: set the flag, clear the buffer, spawn
StartRecordingOk ==
    /\ ~recording
    /\ region # NoRegion
    /\ nspawned < MaxLoops
    /\ recording' = TRUE
    /\ frames' = <<>>
    /\ nspawned' = nspawned + 1
    /\ pc' = [pc EXCEPT ![nspawned + 1] = "startup"]
    /\ startResult' = "Ok"
    /\ UNCHANGED expVars
    /\ UNCHANGED scrollVars
    /\ UNCHANGED <<region, img, sawRecording, frameCount, clock, stateEmits,
                   stoppedEmits, stoppedPayload, lateAppend>>

StartRecording == StartRecordingErr \/ StartRecordingOk

\* stop_recording: s.recording = false
StopRecording ==
    /\ recording' = FALSE
    /\ UNCHANGED expVars
    /\ UNCHANGED scrollVars
    /\ UNCHANGED <<region, frames, nspawned, pc, img, sawRecording,
                   frameCount, clock, stateEmits, stoppedEmits,
                   stoppedPayload, lateAppend, startResult>>

\* discard_recording: s.frames.clear()
DiscardRecording ==
    /\ frames' = <<>>
    /\ UNCHANGED expVars
    /\ UNCHANGED scrollVars
    /\ UNCHANGED <<recording, region, nspawned, pc, img, sawRecording,
                   frameCount, clock, stateEmits, stoppedEmits,
                   stoppedPayload, lateAppend, startResult>>

\* ---- the capture thread ----

\* Screen::all(): no screen ends the thread, silently
LoopStartup(l) ==
    /\ pc[l] = "startup"
    /\ \E screens \in BOOLEAN :
          pc' = [pc EXCEPT ![l] = IF screens THEN "poll" ELSE "exited"]
    /\ UNCHANGED expVars
    /\ UNCHANGED scrollVars
    /\ UNCHANGED <<recording, region, frames, nspawned, img, sawRecording,
                   frameCount, clock, stateEmits, stoppedEmits,
                   stoppedPayload, lateAppend, startResult>>

\* a loop that reads the flag and captures all the same
LoopPoll_NoCheck(l) ==
    /\ pc[l] = "poll"
    /\ sawRecording' = [sawRecording EXCEPT ![l] = recording]
    /\ pc' = [pc EXCEPT ![l] = "capture"]
    /\ UNCHANGED expVars
    /\ UNCHANGED scrollVars
    /\ UNCHANGED <<recording, region, frames, nspawned, img, frameCount,
                   clock, stateEmits, stoppedEmits, stoppedPayload,
                   lateAppend, startResult>>

\* top of the loop: read the flag under the lock
LoopPoll(l) ==
    /\ pc[l] = "poll"
    /\ sawRecording' = [sawRecording EXCEPT ![l] = recording]
    /\ IF ~recording
         THEN /\ frameCount' = [frameCount EXCEPT ![l] = Len(frames)]
              /\ pc' = [pc EXCEPT ![l] = "cleanup"]
         ELSE /\ pc' = [pc EXCEPT ![l] = "capture"]
              /\ UNCHANGED frameCount
    /\ UNCHANGED expVars
    /\ UNCHANGED scrollVars
    /\ UNCHANGED <<recording, region, frames, nspawned, img, clock,
                   stateEmits, stoppedEmits, stoppedPayload, lateAppend,
                   startResult>>

\* the stop branch after the lock is dropped: emit 'recording-stopped', break
LoopEmitStopped(l) ==
    /\ pc[l] = "cleanup"
    /\ stoppedEmits' = [stoppedEmits EXCEPT ![l] = @ + 1]
    /\ stoppedPayload' = [stoppedPayload EXCEPT ![l] = frameCount[l]]
    /\ pc' = [pc EXCEPT ![l] = "exited"]
    /\ UNCHANGED expVars
    /\ UNCHANGED scrollVars
    /\ UNCHANGED <<recording, region, frames, nspawned, img, sawRecording,
                   frameCount, clock, stateEmits, lateAppend, startResult>>

\* screen.capture_area(..), without the lock: Ok(img) or Err
LoopCaptureOk(l) ==
    /\ pc[l] = "capture"
    /\ clock < MaxCaptures
    /\ clock' = clock + 1
    /\ img' = [img EXCEPT ![l] = [sess |-> l, t |-> clock + 1,
                                  w |-> RegionWidth, h |-> RegionHeight]]
    /\ pc' = [pc EXCEPT ![l] = "push"]
    /\ UNCHANGED expVars
    /\ UNCHANGED scrollVars
    /\ UNCHANGED <<recording, region, frames, nspawned, sawRecording,
                   frameCount, stateEmits, stoppedEmits, stoppedPayload,
                   lateAppend, startResult>>

\* a loop that gives up on the first failed capture
LoopCaptureErr_Fatal(l) ==
    /\ pc[l] = "capture"
    /\ pc' = [pc EXCEPT ![l] = "exited"]
    /\ UNCHANGED expVars
    /\ UNCHANGED scrollVars
    /\ UNCHANGED <<recording, region, frames, nspawned, img, sawRecording,
                   frameCount, clock, stateEmits, stoppedEmits,
                   stoppedPayload, lateAppend, startResult>>

\* Err(e): nothing but a log line
LoopCaptureErr(l) ==
    /\ pc[l] = "capture"
    /\ pc' = [pc EXCEPT ![l] = "sleep"]
    /\ UNCHANGED expVars
    /\ UNCHANGED scrollVars
    /\ UNCHANGED <<recording, region, frames, nspawned, img, sawRecording,
                   frameCount, clock, stateEmits, stoppedEmits,
                   stoppedPayload, lateAppend, startResult>>

\* a loop that goes from its push straight into the next capture
LoopPush_NextTickAtOnce(l) ==
    /\ pc[l] = "push"
    /\ frames' = Append(frames, img[l])
    /\ img' = [img EXCEPT ![l] = NoFrame]
    /\ stateEmits' = stateEmits + 1
    /\ lateAppend' = [lateAppend EXCEPT ![l] = @ \/ stoppedEmits[l] > 0]
    /\ pc' = [pc EXCEPT ![l] = "capture"]
    /\ UNCHANGED expVars
    /\ UNCHANGED scrollVars
    /\ UNCHANGED <<recording, region, nspawned, sawRecording, frameCount,
                   clock, stoppedEmits, stoppedPayload, startResult>>

\* Ok(img): lock, s.frames.push(rgba), emit 'recording-state'
LoopPush(l) ==
    /\ pc[l] = "push"
    /\ frames' = Append(frames, img[l])
    /\ img' = [img EXCEPT ![l] = NoFrame]
    /\ stateEmits' = stateEmits + 1
    /\ lateAppend' = [lateAppend EXCEPT ![l] = @ \/ stoppedEmits[l] > 0]
    /\ pc' = [pc EXCEPT ![l] = "sleep"]
    /\ UNCHANGED expVars
    /\ UNCHANGED scrollVars
    /\ UNCHANGED <<recording, region, nspawned, sawRecording, frameCount,
                   clock, stoppedEmits, stoppedPayload, startResult>>

\* a loop that polls the flag once, before its first tick only
LoopSleep_SkipPoll(l) ==
    /\ pc[l] = "sleep"
    /\ pc' = [pc EXCEPT ![l] = "capture"]
    /\ sawRecording' = [sawRecording EXCEPT ![l] = FALSE]
    /\ UNCHANGED expVars
    /\ UNCHANGED scrollVars
    /\ UNCHANGED <<recording, region, frames, nspawned, img, frameCount,
                   clock, stateEmits, stoppedEmits, stoppedPayload,
                   lateAppend, startResult>>

\* thread::sleep(frame_duration - elapsed), then the next tick
LoopSleep(l) ==
    /\ pc[l] = "sleep"
    /\ pc' = [pc EXCEPT ![l] = "poll"]
    /\ sawRecording' = [sawRecording EXCEPT ![l] = FALSE]
    /\ UNCHANGED expVars
    /\ UNCHANGED scrollVars
    /\ UNCHANGED <<recording, region, frames, nspawned, img, frameCount,
                   clock, stateEmits, stoppedEmits, stoppedPayload,
                   lateAppend, startResult>>

LoopStep(l) ==
    \/ LoopStartup(l)
    \/ LoopPoll(l)
    \/ LoopEmitStopped(l)
    \/ LoopCaptureOk(l)
    \/ LoopCaptureErr(l)
    \/ LoopPush(l)
    \/ LoopSleep(l)

Next ==
    \/ SetRegion
    \/ StartRecordingErr
    \/ StartRecordingOk
    \/ StopRecording
    \/ DiscardRecording
    \/ \E l \in Loops : LoopStartup(l)
    \/ \E l \in Loops : LoopPoll(l)
    \/ \E l \in Loops : LoopEmitStopped(l)
    \/ \E l \in Loops : LoopCaptureOk(l)
    \/ \E l \in Loops : LoopCaptureErr(l)
    \/ \E l \in Loops : LoopPush(l)
    \/ \E l \in Loops : LoopSleep(l)

Spec == Init /\ [][Next]_vars

\* every spawned capture thread is scheduled again and again; a step of the
\* thread is a step that moves its pc
FairSpec == Spec /\ \A l \in Loops : WF_pc(LoopStep(l))

(***************************************************************************)
(* export_gif and its thread                                               *)
(***************************************************************************)

Min(a, b) == IF a < b THEN a ELSE b
Max(a, b) == IF a > b THEN a ELSE b

\* round(a / b) of the exact quotient, for a >= 0, b > 0: halves round away
\* from zero
RoundDiv(a, b) == (2 * a + b) \div (2 * b)

\* the clamp of config.speed to [0.1, 10] as the fraction <<num, den>>
ClampSpeed(cfg) ==
    IF cfg.speedNum * 10 < cfg.speedDen THEN <<1, 10>>
    ELSE IF cfg.speedNum > 10 * cfg.speedDen THEN <<10, 1>>
    ELSE <<cfg.speedNum, cfg.speedDen>>

\* ---- binary floating point (f32 and f64 of export.rs) ----
\* A non-negative float is [d |-> digits, e |-> exponent]: d is the significand
\* in base 64, most significant digit first (no leading zero digit, <<>> for
\* zero), and the value is Nat64(d) * 2^e.  Every operation computes the exact
\* result and rounds it to the nearest float of p significant bits, ties to
\* even, as IEEE 754 arithmetic does.
F32Bits == 24
F64Bits == 53

RECURSIVE Pow2(_)
Pow2(k) == IF k <= 0 THEN 1 ELSE 2 * Pow2(k - 1)

RECURSIVE DigitsOf(_)
DigitsOf(n) == IF n = 0 THEN <<>> ELSE Append(DigitsOf(n \div 64), n % 64)

RECURSIVE Nat64(_)
Nat64(d) == IF d = <<>> THEN 0
            ELSE 64 * Nat64(SubSeq(d, 1, Len(d) - 1)) + d[Len(d)]

\* the number of bits of n
RECURSIVE BitLen(_)
BitLen(n) == IF n = 0 THEN 0 ELSE 1 + BitLen(n \div 2)

DigitsBitLen(d) == IF d = <<>> THEN 0 ELSE 6 * (Len(d) - 1) + BitLen(d[1])

\* quotient and remainder of the digits d by an integer 0 < k <= 2^24
RECURSIVE DivDigits(_, _, _, _, _)
DivDigits(d, k, i, r, q) ==
    IF i > Len(d) THEN [q |-> q, r |-> r]
    ELSE LET cur == 64 * r + d[i]
             dig == cur \div k
         IN  DivDigits(d, k, i + 1, cur % k,
                       IF q = <<>> /\ dig = 0 THEN q ELSE Append(q, dig))

\* the digits d times an integer 0 < k <= 2^24, plus the carry c
RECURSIVE MulDigits(_, _, _, _)
MulDigits(d, k, i, c) ==
    IF i = 0 THEN DigitsOf(c)
    ELSE Append(MulDigits(d, k, i - 1, (d[i] * k + c) \div 64),
                (d[i] * k + c) % 64)

Zeros(n) == [i \in 1..n |-> 0]

\* the quotient of a shift with what it lost
ShiftedOut(res, lost) ==
    [q |-> res.q, sticky |-> res.r # 0 \/ \E i \in DOMAIN lost : lost[i] # 0]

\* d >> s, and whether a non-zero part was shifted out
ShiftRight(d, s) ==
    ShiftedOut(DivDigits(SubSeq(d, 1, Len(d) - s \div 6), Pow2(s % 6), 1, 0,
                         <<>>),
               SubSeq(d, Len(d) - s \div 6 + 1, Len(d)))

FZero == [d |-> <<>>, e |-> 0]

\* kept * 2^e, shifted once more when rounding up carried into bit p + 1
Renormalised(kept, e, p) ==
    IF DigitsBitLen(kept) > p
    THEN [d |-> ShiftRight(kept, 1).q, e |-> e + 1]
    ELSE [d |-> kept, e |-> e]

\* keep * 2^e and the bits below it: up when the guard bit is set and the
\* rest is non-zero or keep is odd (ties to even)
RoundKept(keep, guard, sticky, e, p) ==
    Renormalised(IF guard /\ (sticky \/ keep[Len(keep)] % 2 = 1)
                 THEN MulDigits(keep, 1, Len(keep), 1)
                 ELSE keep,
                 e, p)

\* above.q holds the p bits to keep and the guard bit below them
RoundShifted(above, e, sticky, p) ==
    RoundKept(ShiftRight(above.q, 1).q, above.q[Len(above.q)] % 2 = 1,
              sticky \/ above.sticky, e, p)

\* Nat64(d) * 2^e, plus a non-zero rest below the last bit when sticky,
\* rounded to p significant bits
FRound(d, e, sticky, p) ==
    IF DigitsBitLen(d) <= p THEN [d |-> d, e |-> e]
    ELSE RoundShifted(ShiftRight(d, DigitsBitLen(d) - p - 1),
                      e + DigitsBitLen(d) - p, sticky, p)

\* an integer as a float
FFromInt(n, p) == FRound(DigitsOf(n), 0, FALSE, p)

\* the quotient res.q * 2^e with its remainder res.r, rounded
FRoundQuotient(res, e, p) == FRound(res.q, e, res.r # 0, p)

\* x / k for an integer 0 < k <= 2^24, from a dividend of pad more digits
FDivPadded(x, k, pad, p) ==
    FRoundQuotient(DivDigits(x.d \o Zeros(pad), k, 1, 0, <<>>),
                   x.e - 6 * pad, p)

FDivInt(x, k, p) ==
    IF x.d = <<>> THEN FZero
    ELSE FDivPadded(x, k, (p + 2 + BitLen(k)) \div 6 + 1, p)

\* x * k for an integer 0 < k <= 2^24
FMulInt(x, k, p) ==
    IF x.d = <<>> \/ k = 0 THEN FZero
    ELSE FRound(MulDigits(x.d, k, Len(x.d), 0), x.e, FALSE, p)

\* x * 2^by
FScale(x, by) == [d |-> x.d, e |-> x.e + by]

\* x / y and x * y for a float y of at most 24 significant bits
FDiv(x, y, p) == FScale(FDivInt(x, Nat64(y.d), p), -y.e)
FMul(x, y, p) == FScale(FMulInt(x, Nat64(y.d), p), y.e)

\* x < y, for floats of at most 24 significant bits
FLess(x, y) ==
    IF y.d = <<>> THEN FALSE
    ELSE IF x.d = <<>> THEN TRUE
    ELSE LET lx == DigitsBitLen(x.d)
             ly == DigitsBitLen(y.d)
             w == IF lx > ly THEN lx ELSE ly
         IN  \/ x.e + lx < y.e + ly
             \/ /\ x.e + lx = y.e + ly
                /\ Nat64(x.d) * Pow2(w - lx) < Nat64(y.d) * Pow2(w - ly)

FMax(x, y) == IF FLess(x, y) THEN y ELSE x
FMin(x, y) == IF FLess(y, x) THEN y ELSE x
FClamp(x, lo, hi) == FMax(lo, FMin(x, hi))

\* the integer part of x: a cast `as usize`, `as u32` or `as u16`
FTrunc(x) ==
    IF x.d = <<>> THEN 0
    ELSE IF x.e >= 0 THEN Nat64(x.d) * Pow2(x.e)
    ELSE IF -x.e >= DigitsBitLen(x.d) THEN 0
    ELSE Nat64(ShiftRight(x.d, -x.e).q)

\* twice the magnitude in above, halved with halves going up
HalfUp(above) == Nat64(ShiftRight(above, 1).q) + (above[Len(above)] % 2)

\* x.round(): the nearest integer, halves away from zero
FRoundInt(x) ==
    IF x.d = <<>> \/ x.e >= 0 THEN FTrunc(x)
    ELSE IF -x.e > DigitsBitLen(x.d) THEN 0
    ELSE HalfUp(ShiftRight(x.d, -x.e - 1).q)

\* 1.0 - x for a float 0 < x <= 1 of at most 24 significant bits
FOneMinus(x, p) ==
    FRound(DigitsOf(Pow2(-x.e) - Nat64(x.d)), x.e, FALSE, p)

\* config.speed as the f32 it is, and config.speed.clamp(0.1, 10.0)
F32(num, den) == FDivInt(FFromInt(num, F32Bits), den, F32Bits)
\* the f32 literals 0.1, 10.0, 1.0 and 0.01
F32Tenth == F32(1, 10)
F32Ten == F32(10, 1)
F32One == F32(1, 1)
F32Hundredth == F32(1, 100)

Speed(cfg) == FClamp(F32(cfg.speedNum, cfg.speedDen), F32Tenth, F32Ten)

\* all_frames[start..end] with both ends clamped to total_frames
TrimStart(all, cfg) == Min(cfg.start_frame, Len(all))
TrimEnd(all, cfg) == Min(cfg.end_frame, Len(all))
Trimmed(all, cfg) == SubSeq(all, TrimStart(all, cfg) + 1, TrimEnd(all, cfg))

\* a target count that takes the recording for twice as fast as it was
TargetFrameCount_DoubleRate(n, cfg) ==
    LET original_duration ==
            FDivInt(FFromInt(n, F32Bits), 2 * RecordingFps, F32Bits)
        output_duration == FDiv(original_duration, Speed(cfg), F32Bits)
    IN  Max(FRoundInt(FMulInt(output_duration, cfg.target_fps, F32Bits)), 1)

\* (trimmed_count / recording_fps / speed * target_fps).round().max(1), every
\* intermediate result an f32
TargetFrameCount(n, cfg) ==
    LET original_duration ==
            FDivInt(FFromInt(n, F32Bits), RecordingFps, F32Bits)
        output_duration == FDiv(original_duration, Speed(cfg), F32Bits)
    IN  Max(FRoundInt(FMulInt(output_duration, cfg.target_fps, F32Bits)), 1)

\* a sampling with the ratio of the two counts upside down
SampleIndex_InvertedStride(i, n, target) ==
    Min(FRoundInt(FDivInt(FMulInt(FFromInt(i, F32Bits), Max(target - 1, 1),
                                  F32Bits),
                          n - 1, F32Bits)),
        n - 1)

\* src_idx of output frame i (from 0) among n trimmed frames, in f32
SampleIndex(i, n, target) ==
    Min(FRoundInt(FDivInt(FMulInt(FFromInt(i, F32Bits), n - 1, F32Bits),
                          Max(target - 1, 1), F32Bits)),
        n - 1)

\* target_frame_count for every buffer length and configuration of the runs
AllConfigs == {NoConfig} \cup Configs \cup ResampleConfigs
TargetFrameCounts ==
    [n \in 0..MaxFrames, cfg \in AllConfigs |-> TargetFrameCount(n, cfg)]

\* target frames out of tr: all of tr when target is not below its length
SampledTo(tr, target) ==
    IF target >= Len(tr) THEN tr
    ELSE [i \in 1..target |-> tr[SampleIndex(i - 1, Len(tr), target) + 1]]

\* uniform sampling of the trimmed frames
Sampled(tr, cfg) == SampledTo(tr, TargetFrameCounts[Len(tr), cfg])

\* config.output_scale.clamp(0.1, 1.0): in hundredths, and as the f32 it is
ClampScale(cfg) == Max(10, Min(cfg.output_scale, 100))
OutputScale(cfg) == FClamp(F32(cfg.output_scale, 100), F32Tenth, F32One)

\* (f.width() as f32 * output_scale) as u32
ScaleDim(x, scale) == FTrunc(FMul(FFromInt(x, F32Bits), scale, F32Bits))

\* new_w and new_h for every frame dimension and configuration of the runs
FrameDims == UNION {{size[1], size[2]} : size \in FrameSizes}
ScaledDims ==
    [x \in FrameDims, cfg \in AllConfigs |-> ScaleDim(x, OutputScale(cfg))]

\* (output_scale - 1.0).abs() > 0.01, output_scale being at most 1.0
Resized ==
    [cfg \in AllConfigs |->
        FLess(F32Hundredth, FOneMinus(OutputScale(cfg), F32Bits))]

\* resize of every frame when (output_scale - 1.0).abs() > 0.01
Scaled(fs, cfg) ==
    IF Resized[cfg]
    THEN [i \in DOMAIN fs |->
             [fs[i] EXCEPT !.w = ScaledDims[fs[i].w, cfg],
                           !.h = ScaledDims[fs[i].h, cfg]]]
    ELSE fs

\* a PingPong that plays the whole sequence backwards, both ends again
LoopExpanded_WholeReverse(fs, cfg) ==
    IF cfg.loop_mode = "pingpong" /\ Len(fs) > 2
    THEN fs \o [i \in 1..Len(fs) |-> fs[Len(fs) + 1 - i]]
    ELSE fs

\* PingPong with more than two frames: the interior again, reversed
LoopExpanded(fs, cfg) ==
    IF cfg.loop_mode = "pingpong" /\ Len(fs) > 2
    THEN fs \o [i \in 1..(Len(fs) - 2) |-> fs[Len(fs) - i]]
    ELSE fs

\* final_frames of the export thread, from its clone of the buffer
FinalFrames(all, cfg) ==
    LoopExpanded(Scaled(Sampled(Trimmed(all, cfg), cfg), cfg), cfg)

\* a delay that is divided by the speed as well
Delay_DividedBySpeed(cfg) ==
    IF cfg.target_fps > 0
    THEN FTrunc(FMax(FDiv(FDivInt(FFromInt(100, F32Bits), cfg.target_fps,
                                  F32Bits),
                          Speed(cfg), F32Bits),
                     FFromInt(1, F32Bits)))
    ELSE 10

\* frame.delay: (100.0 / target_fps as f32).max(1.0) as u16, or 10
Delay(cfg) ==
    IF cfg.target_fps > 0
    THEN FTrunc(FMax(FDivInt(FFromInt(100, F32Bits), cfg.target_fps, F32Bits),
                     FFromInt(1, F32Bits)))
    ELSE 10

\* total_frames of the estimate: twice less two for a pingpong of more than
\* two frames
EstimateExpanded(final_frame_count, cfg) ==
    IF cfg.loop_mode = "pingpong" /\ final_frame_count > 2
    THEN final_frame_count * 2 - 2
    ELSE final_frame_count

\* estimate_export_size on the buffer fs: total_frames, from an f64 product
\* without a lower bound, and the first frame's size times the unclamped scale
EstimateFrames(fs, cfg) ==
    LET start == Min(cfg.start_frame, Len(fs))
        end == Min(cfg.end_frame, Len(fs))
        trimmed_count == IF end > start THEN end - start ELSE 0
        original_duration ==
            FDivInt(FFromInt(trimmed_count, F64Bits), RecordingFps, F64Bits)
        output_duration == FDiv(original_duration, Speed(cfg), F64Bits)
    IN  EstimateExpanded(
            FRoundInt(FMulInt(output_duration, cfg.target_fps, F64Bits)), cfg)

SizeEstimate(fs, cfg) ==
    IF fs = <<>>
    THEN [frame_count |-> 0, output_width |-> 0, output_height |-> 0]
    ELSE [frame_count |-> EstimateFrames(fs, cfg),
          output_width |-> ScaleDim(fs[1].w, F32(cfg.output_scale, 100)),
          output_height |-> ScaleDim(fs[1].h, F32(cfg.output_scale, 100))]

Progress(cur, tot) == [ev |-> "progress", current |-> cur, total |-> tot]
Complete(ok, why) == [ev |-> "complete", success |-> ok, error |-> why]

\* export_gif on an empty buffer: 'export-complete' {success: false}, no thread
ExportGifEmpty(cfg) ==
    /\ epc \in {"idle", "done"}
    /\ frames = <<>>
    /\ config' = cfg
    /\ callFrames' = frames
    /\ allFrames' = <<>>
    /\ sampledFrames' = <<>>
    /\ scaledFrames' = <<>>
    /\ finalFrames' = <<>>
    /\ encoded' = <<>>
    /\ delays' = <<>>
    /\ outFile' = "none"
    /\ canvas' = <<0, 0>>
    /\ exportLog' = <<Complete(FALSE, "No frames to export")>>
    /\ epc' = "done"
    /\ UNCHANGED estimate
    /\ UNCHANGED recVars
    /\ UNCHANGED scrollVars

\* export_gif: clone s.frames under the lock, spawn the export thread
ExportGifSpawn(cfg) ==
    /\ epc \in {"idle", "done"}
    /\ frames # <<>>
    /\ config' = cfg
    /\ callFrames' = frames
    /\ allFrames' = frames
    /\ sampledFrames' = <<>>
    /\ scaledFrames' = <<>>
    /\ finalFrames' = <<>>
    /\ encoded' = <<>>
    /\ delays' = <<>>
    /\ outFile' = "none"
    /\ canvas' = <<0, 0>>
    /\ exportLog' = <<>>
    /\ epc' = "trim"
    /\ UNCHANGED estimate
    /\ UNCHANGED recVars
    /\ UNCHANGED scrollVars

ExportGif(cfg) == ExportGifEmpty(cfg) \/ ExportGifSpawn(cfg)

\* the thread's trim, sampling, scaling and loop expansion of the buffer all,
\* empty being its test of the trimmed range
ExportPipeline(all, empty) ==
    /\ epc = "trim"
    /\ IF empty
         THEN /\ exportLog' =
                    Append(exportLog, Complete(FALSE, "Invalid frame range"))
              /\ epc' = "done"
              /\ UNCHANGED <<sampledFrames, scaledFrames, finalFrames>>
         ELSE \E sampled \in {Sampled(Trimmed(all, config), config)} :
              \E scaled \in {Scaled(sampled, config)} :
                  IF sampled = <<>>
                  THEN /\ exportLog' = Append(exportLog,
                              Complete(FALSE, "No frames after sampling"))
                       /\ epc' = "done"
                       /\ UNCHANGED <<sampledFrames, scaledFrames,
                                      finalFrames>>
                  ELSE /\ sampledFrames' = sampled
                       /\ scaledFrames' = scaled
                       /\ finalFrames' = LoopExpanded(scaled, config)
                       /\ epc' = "mkdir"
                       /\ UNCHANGED exportLog
    /\ UNCHANGED <<config, allFrames, encoded, callFrames, outFile, canvas,
                   delays, estimate>>
    /\ UNCHANGED recVars
    /\ UNCHANGED scrollVars

\* an export thread that trims the session's buffer instead of its clone
ExportTrim_ReadsShared ==
    ExportPipeline(frames, TrimEnd(frames, config) <= TrimStart(frames, config))

\* an export thread that takes a range of equal ends for a valid one
ExportTrim_AdmitsEmptyRange ==
    ExportPipeline(allFrames,
                   TrimEnd(allFrames, config) < TrimStart(allFrames, config))

\* if end <= start: 'export-complete' {success: false}; else the pipeline
ExportTrim ==
    ExportPipeline(allFrames,
                   TrimEnd(allFrames, config) <= TrimStart(allFrames, config))

\* std::fs::create_dir_all(&output_dir)
ExportCreateDir ==
    /\ epc = "mkdir"
    /\ \E ok \in BOOLEAN :
          IF ok
          THEN /\ epc' = "create"
               /\ UNCHANGED exportLog
          ELSE /\ exportLog' = Append(exportLog, Complete(FALSE, "io"))
               /\ epc' = "done"
    /\ UNCHANGED <<config, allFrames, sampledFrames, scaledFrames,
                   finalFrames, encoded, callFrames, outFile, canvas, delays,
                   estimate>>
    /\ UNCHANGED recVars
    /\ UNCHANGED scrollVars

\* File::create, then Encoder::new on the first frame's dimensions cast to
\* u16 and set_repeat: the file may not be created, and the encoder may fail
\* once the file is there
ExportCreateFile ==
    /\ epc = "create"
    /\ \E fileOk \in BOOLEAN, encOk \in BOOLEAN :
          /\ outFile' = IF fileOk THEN "created" ELSE "none"
          /\ IF fileOk /\ encOk
             THEN /\ canvas' = <<finalFrames[1].w % 65536,
                                 finalFrames[1].h % 65536>>
                  /\ epc' = "encode"
                  /\ UNCHANGED exportLog
             ELSE /\ exportLog' = Append(exportLog, Complete(FALSE, "io"))
                  /\ epc' = "done"
                  /\ UNCHANGED canvas
    /\ UNCHANGED <<config, allFrames, sampledFrames, scaledFrames,
                   finalFrames, encoded, callFrames, delays, estimate>>
    /\ UNCHANGED recVars
    /\ UNCHANGED scrollVars

\* an encode loop that reports a frame before it writes it
ExportWriteFrame_EmitsFirst ==
    /\ epc = "encode"
    /\ Len(encoded) < Len(finalFrames)
    /\ \E ok \in BOOLEAN :
          IF ok
          THEN /\ encoded' = Append(encoded, finalFrames[Len(encoded) + 1])
               /\ delays' = Append(delays, Delay(config))
               /\ exportLog' = Append(exportLog,
                      Progress(Len(encoded) + 1, Len(finalFrames)))
               /\ UNCHANGED epc
          ELSE /\ exportLog' = Append(Append(exportLog,
                      Progress(Len(encoded) + 1, Len(finalFrames))),
                      Complete(FALSE, "encode"))
               /\ epc' = "done"
               /\ UNCHANGED <<encoded, delays>>
    /\ UNCHANGED <<config, allFrames, sampledFrames, scaledFrames,
                   finalFrames, callFrames, outFile, canvas, estimate>>
    /\ UNCHANGED recVars
    /\ UNCHANGED scrollVars

\* one turn of the encode loop: the frame with its delay, write_frame, then
\* 'export-progress'
ExportWriteFrame ==
    /\ epc = "encode"
    /\ Len(encoded) < Len(finalFrames)
    /\ \E ok \in BOOLEAN :
          IF ok
          THEN /\ encoded' = Append(encoded, finalFrames[Len(encoded) + 1])
               /\ delays' = Append(delays, Delay(config))
               /\ exportLog' = Append(exportLog,
                      Progress(Len(encoded) + 1, Len(finalFrames)))
               /\ UNCHANGED epc
          ELSE /\ exportLog' = Append(exportLog, Complete(FALSE, "encode"))
               /\ epc' = "done"
               /\ UNCHANGED <<encoded, delays>>
    /\ UNCHANGED <<config, allFrames, sampledFrames, scaledFrames,
                   finalFrames, callFrames, outFile, canvas, estimate>>
    /\ UNCHANGED recVars
    /\ UNCHANGED scrollVars

\* an export thread that ends without its terminal event
ExportFinish_Silent ==
    /\ epc = "encode"
    /\ Len(encoded) = Len(finalFrames)
    /\ epc' = "done"
    /\ UNCHANGED <<config, allFrames, sampledFrames, scaledFrames,
                   finalFrames, encoded, exportLog, callFrames, outFile,
                   canvas, delays, estimate>>
    /\ UNCHANGED recVars
    /\ UNCHANGED scrollVars

\* the loop is through: Ok(path), 'export-complete' {success: true}
ExportFinish ==
    /\ epc = "encode"
    /\ Len(encoded) = Len(finalFrames)
    /\ exportLog' = Append(exportLog, Complete(TRUE, "none"))
    /\ epc' = "done"
    /\ UNCHANGED <<config, allFrames, sampledFrames, scaledFrames,
                   finalFrames, encoded, callFrames, outFile, canvas, delays,
                   estimate>>
    /\ UNCHANGED recVars
    /\ UNCHANGED scrollVars

\* estimate_export_size: reads s.frames under the lock
EstimateExportSize(cfg) ==
    /\ estimate' = SizeEstimate(frames, cfg)
    /\ UNCHANGED <<epc, config, allFrames, sampledFrames, scaledFrames,
                   finalFrames, encoded, exportLog, callFrames, outFile,
                   canvas, delays>>
    /\ UNCHANGED recVars
    /\ UNCHANGED scrollVars

ExportStep ==
    \/ ExportTrim
    \/ ExportCreateDir
    \/ ExportCreateFile
    \/ ExportWriteFrame
    \/ ExportFinish

\* a session recorded and stopped earlier, its thread gone: n frames in order
PrerecordedOf(n, width, height) ==
    [i \in 1..n |-> [sess |-> 0, t |-> i - n, w |-> width, h |-> height]]
Prerecorded(n) == PrerecordedOf(n, RegionWidth, RegionHeight)

ExportInit ==
    /\ recording = FALSE
    /\ region \in Regions
    /\ \E n \in 0..MaxPrerecorded : frames = Prerecorded(n)
    /\ nspawned = 0
    /\ pc = [l \in Loops |-> "unspawned"]
    /\ img = [l \in Loops |-> NoFrame]
    /\ sawRecording = [l \in Loops |-> FALSE]
    /\ frameCount = [l \in Loops |-> 0]
    /\ clock = 0
    /\ stateEmits = 0
    /\ stoppedEmits = [l \in Loops |-> 0]
    /\ stoppedPayload = [l \in Loops |-> 0]
    /\ lateAppend = [l \in Loops |-> FALSE]
    /\ startResult = "none"
    /\ ExportIdle
    /\ ScrollIdle
    /\ page = "blank"

ExportNext ==
    \/ \E cfg \in Configs : ExportGifEmpty(cfg)
    \/ \E cfg \in Configs : ExportGifSpawn(cfg)
    \/ ExportTrim
    \/ ExportCreateDir
    \/ ExportCreateFile
    \/ ExportWriteFrame
    \/ ExportFinish
    \/ (nspawned < ExpLoops /\ StartRecordingOk)
    \/ StopRecording
    \/ DiscardRecording
    \/ \E l \in Loops : LoopStartup(l)
    \/ \E l \in Loops : LoopPoll(l)
    \/ \E l \in Loops : LoopEmitStopped(l)
    \/ \E l \in Loops : (clock < ExpCaptures /\ LoopCaptureOk(l))
    \/ \E l \in Loops : LoopCaptureErr(l)
    \/ \E l \in Loops : LoopPush(l)
    \/ \E l \in Loops : LoopSleep(l)

\* export_gif and its thread, with recordings started, stopped and discarded
\* while the export is under way
ExportSpec == ExportInit /\ [][ExportNext]_vars

\* ---- the export pipeline over buffers and configurations ----
ResampleInit ==
    /\ recording = FALSE
    /\ region \in Regions
    /\ \E n \in 0..MaxFrames, size \in FrameSizes :
          frames = PrerecordedOf(n, size[1], size[2])
    /\ nspawned = 0
    /\ pc = [l \in Loops |-> "unspawned"]
    /\ img = [l \in Loops |-> NoFrame]
    /\ sawRecording = [l \in Loops |-> FALSE]
    /\ frameCount = [l \in Loops |-> 0]
    /\ clock = 0
    /\ stateEmits = 0
    /\ stoppedEmits = [l \in Loops |-> 0]
    /\ stoppedPayload = [l \in Loops |-> 0]
    /\ lateAppend = [l \in Loops |-> FALSE]
    /\ startResult = "none"
    /\ ExportIdle
    /\ ScrollIdle
    /\ page = "blank"

\* one export of a recorded buffer, and the estimate
\* the UI asks for with the same configuration
ResampleNext ==
    \/ \E cfg \in ResampleConfigs : (epc = "idle" /\ ExportGifEmpty(cfg))
    \/ \E cfg \in ResampleConfigs : (epc = "idle" /\ ExportGifSpawn(cfg))
    \/ ExportTrim
    \/ ExportCreateDir
    \/ ExportCreateFile
    \/ ExportWriteFrame
    \/ ExportFinish
    \/ (epc = "done" /\ estimate = NoEstimate /\ EstimateExportSize(config))

ResampleSpec == ResampleInit /\ [][ResampleNext]_vars

(***************************************************************************)
(* Scroll capture (commands/scroll.rs)                                     *)
(*                                                                         *)
(* The scroll commands are synchronous tauri commands: the runtime runs    *)
(* them one at a time, and none of them spawns a thread, so each command   *)
(* is one action from its call to its return.                              *)
(***************************************************************************)

\* ---- what the screen shows ----
\* a page is PageRows rows of pixels, every pixel <<R, G, B>>; the selected
\* region shows RegionHeight of them from row scrollTop on
PagePixel(p, y) ==
    IF p = "blank" THEN <<255, 255, 255>>
    ELSE IF p = "ruled"
         THEN (IF y % 5 = 0 THEN <<0, 0, 0>> ELSE <<255, 255, 255>>)
    ELSE <<(y * 97) % 256, (y * 53) % 256, (y * 31) % 256>>

PageRow(p, y) == [x \in 1..RegionWidth |-> PagePixel(p, y)]

Abs(a) == IF a < 0 THEN -a ELSE a

RECURSIVE SumSeq(_)
SumSeq(s) == IF s = <<>> THEN 0 ELSE s[1] + SumSeq(Tail(s))

\* i64::MAX, above every sum of differences
I64Max == 2147483647
\* strip_height, the first offset tried and the step to the next, the cap of
\* search_range, the threshold per pixel of a strip, and the least |delta|
\* that counts as a scroll
StripHeight == 20
MinOffset == 10
OffsetStep == 5
MaxSearchRange == 200
ThresholdPerPixel == 50
MinDelta == 10

\* region.width and region.height of a selection
RegionSize(r) ==
    IF r = "narrow" THEN [w |-> RegionWidth - 1, h |-> RegionHeight]
    ELSE IF r = "short" THEN [w |-> RegionWidth, h |-> 2 * MinOffset]
    ELSE [w |-> RegionWidth, h |-> RegionHeight]

\* screen.capture_area(region.x, region.y, region.width, region.height) as
\* an RgbaImage: rows[y + 1][x + 1] is pixel (x, y)
CaptureRegion(size, p, top) ==
    [w |-> size.w, h |-> size.h,
     rows |-> [y \in 1..size.h |-> SubSeq(PageRow(p, top + y - 1), 1, size.w)]]

\* the capture of the session's region
CaptureArea(p, top) == CaptureRegion(RegionSize(region), p, top)

\* |p1[0] - p2[0]| + |p1[1] - p2[1]| + |p1[2] - p2[2]|
PixelDiff(p1, p2) == Abs(p1[1] - p2[1]) + Abs(p1[2] - p2[2]) + Abs(p1[3] - p2[3])

\* compare_strips: the differences over every 4th column of two strips
CompareStrips(prev, curr, prev_y, curr_y, width, height) ==
    IF prev_y + height > prev.h \/ curr_y + height > curr.h THEN I64Max
    ELSE SumSeq([y \in 1..height |->
             SumSeq([k \in 1..((width + 3) \div 4) |->
                 PixelDiff(prev.rows[prev_y + y][4 * (k - 1) + 1],
                           curr.rows[curr_y + y][4 * (k - 1) + 1])])])

\* a search that tries every offset from 10 up, not every fifth
Offsets_EveryRow(h) ==
    LET search_range == Min(h \div 2, MaxSearchRange)
    IN  [k \in 1..(IF search_range > MinOffset THEN search_range - MinOffset
                   ELSE 0) |-> MinOffset + (k - 1)]

\* the offsets (10..search_range).step_by(5), in order
Offsets(h) ==
    LET search_range == Min(h \div 2, MaxSearchRange)
        count == IF search_range > MinOffset
                 THEN (search_range - MinOffset + OffsetStep - 1) \div OffsetStep
                 ELSE 0
    IN  [k \in 1..count |-> MinOffset + OffsetStep * (k - 1)]

\* the loop's running best: the first offset of least score, from
\* (0, i64::MAX)
RECURSIVE BestMatch(_, _, _)
BestMatch(offsets, score, k) ==
    IF k = 0 THEN [match |-> 0, score |-> I64Max]
    ELSE LET before == BestMatch(offsets, score, k - 1)
         IN  IF score[offsets[k]] < before.score
             THEN [match |-> offsets[k], score |-> score[offsets[k]]]
             ELSE before

\* a detector that gives a tie to scroll-up
DetectScrollDelta_TieGoesUp(prev, curr) ==
    IF prev.w # curr.w \/ prev.h # curr.h THEN 0
    ELSE LET offsets == Offsets(prev.h)
             cand == {offsets[k] : k \in DOMAIN offsets}
             down == [o \in cand |->
                         CompareStrips(prev, curr, o, 0, prev.w, StripHeight)]
             up == [o \in cand |->
                       CompareStrips(prev, curr, 0, o, prev.w, StripHeight)]
             best_down == BestMatch(offsets, down, Len(offsets))
             best_up == BestMatch(offsets, up, Len(offsets))
             threshold == prev.w * StripHeight * ThresholdPerPixel
         IN  IF best_down.score < threshold /\ best_down.score < best_up.score
             THEN best_down.match
             ELSE IF best_up.score < threshold THEN -best_up.match
             ELSE 0

\* detect_scroll_delta: positive for scroll down, negative for scroll up
DetectScrollDelta(prev, curr) ==
    IF prev.w # curr.w \/ prev.h # curr.h THEN 0
    ELSE LET offsets == Offsets(prev.h)
             cand == {offsets[k] : k \in DOMAIN offsets}
             down == [o \in cand |->
                         CompareStrips(prev, curr, o, 0, prev.w, StripHeight)]
             up == [o \in cand |->
                       CompareStrips(prev, curr, 0, o, prev.w, StripHeight)]
             best_down == BestMatch(offsets, down, Len(offsets))
             best_up == BestMatch(offsets, up, Len(offsets))
             threshold == prev.w * StripHeight * ThresholdPerPixel
         IN  IF best_down.score < threshold /\ best_down.score <= best_up.score
             THEN best_down.match
             ELSE IF best_up.score < threshold THEN -best_up.match
             ELSE 0

\* a stitch that appends the whole new frame
StitchScrollImage_WholeFrame(base, new, delta) ==
    IF base.w # new.w THEN [ok |-> FALSE, image |-> base]
    ELSE [ok |-> TRUE,
          image |-> [w |-> base.w, h |-> base.h + new.h,
                     rows |-> base.rows \o new.rows]]

\* a stitch that writes the new rows over the far edge of the base
StitchScrollImage_Overwrites(base, new, delta) ==
    IF base.w # new.w THEN [ok |-> FALSE, image |-> base]
    ELSE LET add == Min(Min(Abs(delta), new.h), base.h)
             rows ==
                 IF delta > 0
                 THEN SubSeq(base.rows, 1, base.h - add)
                         \o SubSeq(new.rows, new.h - add + 1, new.h)
                 ELSE SubSeq(new.rows, 1, add)
                         \o SubSeq(base.rows, add + 1, base.h)
         IN  [ok |-> TRUE,
              image |-> [w |-> base.w, h |-> Len(rows), rows |-> rows]]

\* a stitch that takes the rows of the new frame from its other edge
StitchScrollImage_NearEdge(base, new, delta) ==
    IF base.w # new.w THEN [ok |-> FALSE, image |-> base]
    ELSE LET add == Min(Abs(delta), new.h)
             rows ==
                 IF delta > 0
                 THEN base.rows \o SubSeq(new.rows, 1, add)
                 ELSE SubSeq(new.rows, new.h - add + 1, new.h) \o base.rows
         IN  [ok |-> TRUE,
              image |-> [w |-> base.w, h |-> Len(rows), rows |-> rows]]

\* stitch_scroll_image: Err on a width mismatch, else the base extended by
\* the new frame's far edge
StitchScrollImage(base, new, delta) ==
    IF base.w # new.w THEN [ok |-> FALSE, image |-> base]
    ELSE LET add == Min(Abs(delta), new.h)
             rows ==
                 IF delta > 0
                 THEN (IF Abs(delta) >= new.h THEN base.rows \o new.rows
                       ELSE base.rows
                               \o SubSeq(new.rows, new.h - add + 1, new.h))
                 ELSE (IF Abs(delta) >= new.h THEN new.rows \o base.rows
                       ELSE SubSeq(new.rows, 1, add) \o base.rows)
         IN  [ok |-> TRUE,
              image |-> [w |-> base.w, h |-> Len(rows), rows |-> rows]]

\* the user scrolls the page under the region
ScrollPage ==
    /\ \E d \in ScrollSteps :
          /\ scrollTop + d >= 0
          /\ scrollTop + d <= PageRows - RegionHeight
          /\ scrollTop' = scrollTop + d
    /\ UNCHANGED <<scroll_capturing, scroll_frames, scroll_offsets,
                   scroll_stitched, page, accepted, scrollResult>>
    /\ UNCHANGED lockVars
    /\ UNCHANGED recVars
    /\ UNCHANGED expVars

\* open_scroll_overlay: the region is stored for the captures to come,
\* unless the screens cannot be listed
OpenScrollOverlay ==
    /\ \E r \in ScrollRegions, screens \in BOOLEAN :
          region' = IF screens THEN r ELSE region
    /\ UNCHANGED <<recording, frames, nspawned, pc, img, sawRecording,
                   frameCount, clock, stateEmits, stoppedEmits, stoppedPayload,
                   lateAppend, startResult>>
    /\ UNCHANGED expVars
    /\ UNCHANGED scrollVars

\* a start that pushes its frame onto the history it found
StartScrollCapture_KeepsHistory ==
    /\ region # NoRegion
    /\ scroll_capturing' = TRUE
    /\ accepted' = <<>>
    /\ \E frame \in {CaptureArea(page, scrollTop)} :
          /\ scroll_frames' = Append(scroll_frames, frame)
          /\ scroll_offsets' = Append(scroll_offsets, 0)
          /\ scroll_stitched' = <<frame>>
          /\ scrollResult' = Returned("start", 1, frame.h)
    /\ UNCHANGED <<page, scrollTop>>
    /\ UNCHANGED lockVars
    /\ UNCHANGED recVars
    /\ UNCHANGED expVars

\* start_scroll_capture
StartScrollCapture ==
    /\ IF region = NoRegion
       THEN /\ scrollResult' = Failed("start", "No region selected")
            /\ UNCHANGED <<scroll_capturing, scroll_frames, scroll_offsets,
                           scroll_stitched, accepted>>
       ELSE /\ scroll_capturing' = TRUE
            /\ accepted' = <<>>
            /\ \E captured \in BOOLEAN, preview \in BOOLEAN :
                  IF ~captured
                  THEN /\ scroll_frames' = <<>>
                       /\ scroll_offsets' = <<>>
                       /\ scroll_stitched' = <<>>
                       /\ scrollResult' = Failed("start", "capture")
                  ELSE LET frame == CaptureArea(page, scrollTop)
                       IN  /\ scroll_frames' = <<frame>>
                           /\ scroll_offsets' = <<0>>
                           /\ scroll_stitched' = <<frame>>
                           /\ scrollResult' =
                                 IF preview
                                 THEN Returned("start", 1, frame.h)
                                 ELSE Failed("start", "preview")
    /\ UNCHANGED <<page, scrollTop>>
    /\ UNCHANGED lockVars
    /\ UNCHANGED recVars
    /\ UNCHANGED expVars

\* a capture step that keeps every frame it captures
CaptureScrollFrameAuto_KeepsEveryFrame ==
    /\ scroll_capturing
    /\ region # NoRegion
    /\ scroll_frames # <<>>
    /\ scroll_frames' = Append(scroll_frames, CaptureArea(page, scrollTop))
    /\ scroll_offsets' =
          Append(scroll_offsets, scroll_offsets[Len(scroll_offsets)])
    /\ scrollResult' =
          Returned("auto", Len(scroll_frames) + 1, scroll_stitched[1].h)
    /\ UNCHANGED <<scroll_stitched, accepted>>
    /\ UNCHANGED <<scroll_capturing, page, scrollTop>>
    /\ UNCHANGED lockVars
    /\ UNCHANGED recVars
    /\ UNCHANGED expVars

\* capture_scroll_frame_auto
CaptureScrollFrameAuto ==
    /\ IF ~scroll_capturing
       THEN /\ scrollResult' = Failed("auto", "Not in scroll capture mode")
            /\ UNCHANGED <<scroll_frames, scroll_offsets, scroll_stitched,
                           accepted>>
       ELSE IF region = NoRegion
       THEN /\ scrollResult' = Failed("auto", "No region selected")
            /\ UNCHANGED <<scroll_frames, scroll_offsets, scroll_stitched,
                           accepted>>
       ELSE \E captured \in BOOLEAN, preview \in BOOLEAN :
          IF ~captured
          THEN /\ scrollResult' = Failed("auto", "capture")
               /\ UNCHANGED <<scroll_frames, scroll_offsets, scroll_stitched,
                              accepted>>
          ELSE IF scroll_frames = <<>>
          THEN /\ scrollResult' = Failed("auto", "No previous frame")
               /\ UNCHANGED <<scroll_frames, scroll_offsets, scroll_stitched,
                              accepted>>
          ELSE \E new_frame \in {CaptureArea(page, scrollTop)} :
               \E scroll_delta \in
                     {DetectScrollDelta(scroll_frames[Len(scroll_frames)],
                                        new_frame)} :
                  IF Abs(scroll_delta) < MinDelta
                  THEN /\ scrollResult' =
                             IF scroll_stitched = <<>>
                             THEN ReturnedNone("auto")
                             ELSE IF preview
                             THEN Returned("auto", Len(scroll_frames),
                                           scroll_stitched[1].h)
                             ELSE Failed("auto", "preview")
                       /\ UNCHANGED <<scroll_frames, scroll_offsets,
                                      scroll_stitched, accepted>>
                  ELSE \E stitched \in
                             {StitchScrollImage(scroll_stitched[1], new_frame,
                                                scroll_delta)} :
                     IF ~stitched.ok
                     THEN /\ scrollResult' =
                                Failed("auto", "Frame width mismatch")
                          /\ UNCHANGED <<scroll_frames, scroll_offsets,
                                         scroll_stitched, accepted>>
                     ELSE /\ scroll_frames' = Append(scroll_frames, new_frame)
                          /\ scroll_offsets' =
                                Append(scroll_offsets,
                                       (IF scroll_offsets = <<>> THEN 0
                                        ELSE scroll_offsets[Len(scroll_offsets)])
                                          + scroll_delta)
                          /\ scroll_stitched' = <<stitched.image>>
                          /\ accepted' = Append(accepted, scroll_delta)
                          /\ scrollResult' =
                                IF preview
                                THEN Returned("auto", Len(scroll_frames) + 1,
                                              stitched.image.h)
                                ELSE Failed("auto", "preview")
    /\ UNCHANGED <<scroll_capturing, page, scrollTop>>
    /\ UNCHANGED lockVars
    /\ UNCHANGED recVars
    /\ UNCHANGED expVars

\* get_scroll_preview
GetScrollPreview ==
    /\ \E preview \in BOOLEAN :
          scrollResult' =
              IF scroll_stitched = <<>>
              THEN Failed("preview", "No scroll capture in progress")
              ELSE IF preview
              THEN Returned("preview", Len(scroll_frames), scroll_stitched[1].h)
              ELSE Failed("preview", "preview")
    /\ UNCHANGED <<scroll_capturing, scroll_frames, scroll_offsets,
                   scroll_stitched, page, scrollTop, accepted>>
    /\ UNCHANGED lockVars
    /\ UNCHANGED recVars
    /\ UNCHANGED expVars

\* a finish that leaves the frames of the session behind
FinishScrollCapture_KeepsFrames ==
    /\ scroll_capturing
    /\ scroll_stitched # <<>>
    /\ scroll_stitched' = <<>>
    /\ scroll_capturing' = FALSE
    /\ scroll_offsets' = <<>>
    /\ scrollResult' = ReturnedNone("finish")
    /\ UNCHANGED <<scroll_frames, page, scrollTop, accepted>>
    /\ UNCHANGED lockVars
    /\ UNCHANGED recVars
    /\ UNCHANGED expVars

\* finish_scroll_capture: the composite is taken and the session cleared
\* before the save, which may fail
FinishScrollCapture ==
    /\ IF ~scroll_capturing
       THEN /\ scrollResult' = Failed("finish", "Not in scroll capture mode")
            /\ UNCHANGED <<scroll_capturing, scroll_frames, scroll_offsets,
                           scroll_stitched>>
       ELSE IF scroll_stitched = <<>>
       THEN /\ scrollResult' = Failed("finish", "No stitched image")
            /\ UNCHANGED <<scroll_capturing, scroll_frames, scroll_offsets,
                           scroll_stitched>>
       ELSE /\ scroll_stitched' = <<>>
            /\ scroll_capturing' = FALSE
            /\ scroll_frames' = <<>>
            /\ scroll_offsets' = <<>>
            /\ \E saved \in BOOLEAN :
                  scrollResult' =
                      IF saved THEN ReturnedNone("finish")
                      ELSE Failed("finish", "save")
    /\ UNCHANGED <<page, scrollTop, accepted>>
    /\ UNCHANGED lockVars
    /\ UNCHANGED recVars
    /\ UNCHANGED expVars

\* a cancel that leaves the offsets of the session behind
CancelScrollCapture_KeepsOffsets ==
    /\ scroll_capturing' = FALSE
    /\ scroll_frames' = <<>>
    /\ scroll_stitched' = <<>>
    /\ scrollResult' = ReturnedNone("cancel")
    /\ UNCHANGED <<scroll_offsets, page, scrollTop, accepted>>
    /\ UNCHANGED lockVars
    /\ UNCHANGED recVars
    /\ UNCHANGED expVars

\* cancel_scroll_capture
CancelScrollCapture ==
    /\ scroll_capturing' = FALSE
    /\ scroll_frames' = <<>>
    /\ scroll_offsets' = <<>>
    /\ scroll_stitched' = <<>>
    /\ scrollResult' = ReturnedNone("cancel")
    /\ UNCHANGED <<page, scrollTop, accepted>>
    /\ UNCHANGED lockVars
    /\ UNCHANGED recVars
    /\ UNCHANGED expVars

ScrollInit ==
    /\ recording = FALSE
    /\ region = NoRegion
    /\ frames = <<>>
    /\ nspawned = 0
    /\ pc = [l \in Loops |-> "unspawned"]
    /\ img = [l \in Loops |-> NoFrame]
    /\ sawRecording = [l \in Loops |-> FALSE]
    /\ frameCount = [l \in Loops |-> 0]
    /\ clock = 0
    /\ stateEmits = 0
    /\ stoppedEmits = [l \in Loops |-> 0]
    /\ stoppedPayload = [l \in Loops |-> 0]
    /\ lateAppend = [l \in Loops |-> FALSE]
    /\ startResult = "none"
    /\ ExportIdle
    /\ ScrollIdle
    /\ page \in Pages

ScrollNext ==
    \/ SetRegion
    \/ OpenScrollOverlay
    \/ ScrollPage
    \/ StartScrollCapture
    \/ (Len(scroll_frames) < MaxScrollFrames /\ CaptureScrollFrameAuto)
    \/ GetScrollPreview
    \/ FinishScrollCapture
    \/ CancelScrollCapture

\* the scroll commands in any order, the user scrolling the page in between
ScrollSpec == ScrollInit /\ [][ScrollNext]_vars


\* ---- detect_scroll_delta over pairs of captures ----
\* no recording and no export: the state the other commands start from
SessionIdle ==
    /\ recording = FALSE
    /\ frames = <<>>
    /\ nspawned = 0
    /\ pc = [l \in Loops |-> "unspawned"]
    /\ img = [l \in Loops |-> NoFrame]
    /\ sawRecording = [l \in Loops |-> FALSE]
    /\ frameCount = [l \in Loops |-> 0]
    /\ clock = 0
    /\ stateEmits = 0
    /\ stoppedEmits = [l \in Loops |-> 0]
    /\ stoppedPayload = [l \in Loops |-> 0]
    /\ lateAppend = [l \in Loops |-> FALSE]
    /\ startResult = "none"
    /\ ExportIdle

\* the rows of the page a region of this size can be scrolled to
Tops(size) == 0..(PageRows - size.h)

\* prev is a capture of any region at any scroll position of any page
DetectInit ==
    /\ SessionIdle
    /\ region \in ScrollRegions
    /\ page \in Pages
    /\ scrollTop \in Tops(RegionSize(region))
    /\ scroll_capturing = TRUE
    /\ scroll_frames = <<CaptureArea(page, scrollTop)>>
    /\ scroll_offsets = <<>>
    /\ scroll_stitched = <<>>
    /\ accepted = <<>>
    /\ scrollResult = NoResult
    /\ mutex = "free"
    /\ thr = <<>>

\* lines 113-114 of capture_scroll_frame_auto alone: curr is a capture of any
\* region at any scroll position of the same page, scroll_frames keeps the
\* pair compared and scroll_offsets the delta detected
DetectStep ==
    /\ Len(scroll_frames) = 1
    /\ \E r \in ScrollRegions :
          \E top \in Tops(RegionSize(r)) :
             \E curr \in {CaptureRegion(RegionSize(r), page, top)} :
                /\ region' = r
                /\ scrollTop' = top
                /\ scroll_frames' = Append(scroll_frames, curr)
                /\ scroll_offsets' =
                      <<DetectScrollDelta(scroll_frames[1], curr)>>
    /\ UNCHANGED <<scroll_capturing, scroll_stitched, page, accepted,
                   scrollResult>>
    /\ UNCHANGED lockVars
    /\ UNCHANGED <<recording, frames, nspawned, pc, img, sawRecording,
                   frameCount, clock, stateEmits, stoppedEmits, stoppedPayload,
                   lateAppend, startResult>>
    /\ UNCHANGED expVars

DetectNext == DetectStep

DetectSpec == DetectInit /\ [][DetectNext]_vars

\* ---- stitch_scroll_image over composites, frames and deltas ----
\* the deltas handed to stitch_scroll_image: an overlap in either direction,
\* a delta of the frame's very height and one beyond it
StitchDeltas == {MinDelta, -MinDelta - 2, RegionHeight, -RegionHeight - 4}

\* the composite is a capture of any region of the page whose rows all differ
StitchInit ==
    /\ SessionIdle
    /\ region \in ScrollRegions
    /\ page = "text"
    /\ scrollTop = 0
    /\ scroll_capturing = TRUE
    /\ scroll_frames = <<CaptureArea(page, scrollTop)>>
    /\ scroll_offsets = <<0>>
    /\ scroll_stitched = <<CaptureArea(page, scrollTop)>>
    /\ accepted = <<>>
    /\ scrollResult = NoResult
    /\ mutex = "free"
    /\ thr = <<>>

\* lines 130-151 of capture_scroll_frame_auto with the delta of any size:
\* the composite is stitched with a capture of the region and replaced
StitchStep ==
    /\ region # NoRegion
    /\ Len(accepted) < MaxStitches
    /\ \E scroll_delta \in StitchDeltas :
          \E new_frame \in {CaptureArea(page, scrollTop)} :
             \E stitched \in {StitchScrollImage(scroll_stitched[1], new_frame,
                                                scroll_delta)} :
                IF ~stitched.ok
                THEN /\ scrollResult' = Failed("auto", "Frame width mismatch")
                     /\ UNCHANGED <<scroll_frames, scroll_offsets,
                                    scroll_stitched, accepted>>
                ELSE /\ scroll_frames' = Append(scroll_frames, new_frame)
                     /\ scroll_offsets' =
                           Append(scroll_offsets,
                                  scroll_offsets[Len(scroll_offsets)]
                                     + scroll_delta)
                     /\ scroll_stitched' = <<stitched.image>>
                     /\ accepted' = Append(accepted, scroll_delta)
                     /\ scrollResult' =
                           Returned("auto", Len(scroll_frames) + 1,
                                    stitched.image.h)
    /\ UNCHANGED <<scroll_capturing, page, scrollTop>>
    /\ UNCHANGED lockVars
    /\ UNCHANGED recVars
    /\ UNCHANGED expVars

StitchNext ==
    \/ OpenScrollOverlay
    \/ ScrollPage
    \/ StitchStep

StitchSpec == StitchInit /\ [][StitchNext]_vars

(***************************************************************************)
(* The lock of the session                                                 *)
(*                                                                         *)
(* The threads that capture the screen or encode a GIF, at the grain of    *)
(* state.lock() and of the end of the guard's life (drop(s), the end of    *)
(* its block, a return): what a thread reads and writes under the lock is  *)
(* left out, every branch it can take is kept.                             *)
(***************************************************************************)
LockThreads == {"loop", "start", "auto", "shot", "export"}

\* state.lock().unwrap(): the thread waits until the mutex is free
Acquire(t, from, to) ==
    /\ thr[t].pc = from
    /\ mutex = "free"
    /\ mutex' = t
    /\ thr' = [thr EXCEPT ![t].pc = to]

\* a step that moves on with the guard still alive
Release_KeepsLock(t, from, to) ==
    /\ thr[t].pc = from
    /\ mutex = t
    /\ thr' = [thr EXCEPT ![t].pc = to]
    /\ UNCHANGED mutex

\* the guard is dropped or goes out of scope
Release(t, from, to) ==
    /\ thr[t].pc = from
    /\ mutex = t
    /\ mutex' = "free"
    /\ thr' = [thr EXCEPT ![t].pc = to]

\* a step that neither takes nor gives up the mutex
Proceed(t, from, to) ==
    /\ thr[t].pc = from
    /\ thr' = [thr EXCEPT ![t].pc = to]
    /\ UNCHANGED mutex

\* the capture loop (recording.rs:50-113)
LoopThread ==
    \/ Acquire("loop", "tick", "polling")           \* 53
    \/ Release("loop", "polling", "stopped")        \* 54-57: drop(s)
    \/ Release("loop", "polling", "capturing")      \* 77: end of the block
    \/ Proceed("loop", "capturing", "captured")     \* 79-80: Ok(img)
    \/ Proceed("loop", "capturing", "sleeping")     \* 100: Err(e)
    \/ Acquire("loop", "captured", "pushing")       \* 87
    \/ Release("loop", "pushing", "sleeping")       \* 99: end of the arm
    \/ Proceed("loop", "sleeping", "tick")          \* 108-112
    \/ Proceed("loop", "stopped", "tick")           \* 76, and 36 anew

\* start_scroll_capture (scroll.rs:14-76)
StartThread ==
    \/ Acquire("start", "call", "clearing")         \* 16
    \/ Release("start", "clearing", "call")         \* 17-20: no region
    \/ Release("start", "clearing", "capturing")    \* 30: drop(s)
    \/ Proceed("start", "capturing", "call")        \* 34-50: Err
    \/ Proceed("start", "capturing", "captured")    \* 45
    \/ Acquire("start", "captured", "storing")      \* 61
    \/ Release("start", "storing", "call")          \* 68-75: return

\* capture_scroll_frame_auto (scroll.rs:81-155)
AutoThread ==
    \/ Acquire("auto", "call", "checking")          \* 85
    \/ Release("auto", "checking", "call")          \* 86-89: Err
    \/ Release("auto", "checking", "capturing")     \* 90: end of the block
    \/ Proceed("auto", "capturing", "call")         \* 93-100: Err
    \/ Proceed("auto", "capturing", "captured")     \* 99
    \/ Acquire("auto", "captured", "stitching")     \* 108
    \/ Release("auto", "stitching", "call")         \* 111-154: return

\* save_screenshot (export.rs:157-230)
ShotThread ==
    \/ Acquire("shot", "call", "reading")           \* 159
    \/ Release("shot", "reading", "call")           \* 160: no region
    \/ Release("shot", "reading", "capturing")      \* 164: drop(s)
    \/ Proceed("shot", "capturing", "call")         \* 166-182: Err
    \/ Proceed("shot", "capturing", "saving")       \* 178
    \/ Proceed("shot", "saving", "call")            \* 185-229

\* export_gif and the thread it spawns (export.rs:233-430)
ExportThread ==
    \/ Acquire("export", "call", "cloning")         \* 238
    \/ Release("export", "cloning", "call")         \* 240-247: no frames
    \/ Release("export", "cloning", "preparing")    \* 255: drop(s)
    \/ Proceed("export", "preparing", "call")       \* 260-270: empty range
    \/ Proceed("export", "preparing", "encoding")   \* 272-393
    \/ Proceed("export", "encoding", "preparing")   \* 393: the next frame
    \/ Proceed("export", "encoding", "call")        \* 403-428

LockInit ==
    /\ SessionIdle
    /\ region = NoRegion
    /\ page = "blank"
    /\ scroll_capturing = FALSE
    /\ scroll_frames = <<>>
    /\ scroll_offsets = <<>>
    /\ scroll_stitched = <<>>
    /\ scrollTop = 0
    /\ accepted = <<>>
    /\ scrollResult = NoResult
    /\ mutex = "free"
    /\ thr = [t \in LockThreads |->
                 [pc |-> IF t = "loop" THEN "tick" ELSE "call"]]

LockNext ==
    /\ \/ LoopThread
       \/ StartThread
       \/ AutoThread
       \/ ShotThread
       \/ ExportThread
    /\ UNCHANGED <<recVars, expVars, scrollData>>

\* the five threads in any interleaving
LockSpec == LockInit /\ [][LockNext]_vars

(***************************************************************************)
(* capture_scroll_frame_auto called by several callers at once             *)
(*                                                                         *)
(* The command at the grain of its two critical sections, with the capture *)
(* between them outside the lock: the test of lines 84-90, the capture of  *)
(* 93-106 and the update of 108-154 are a step each, and the steps of one  *)
(* call interleave with those of another.                                  *)
(***************************************************************************)
Callers == {"a", "b"}

\* a call that holds no image yet
NoImage == [w |-> 0, h |-> 0, rows |-> <<>>]

\* the captures made so far, over all calls
Captures == Cardinality({c \in Callers : thr[c].seq > 0})

\* lines 84-90: the flag is checked and the region read under the lock
AutoCheck(c) ==
    /\ thr[c].pc = "call"
    /\ IF ~scroll_capturing
       THEN /\ scrollResult' = Failed("auto", "Not in scroll capture mode")
            /\ thr' = [thr EXCEPT ![c].pc = "returned"]
       ELSE IF region = NoRegion
       THEN /\ scrollResult' = Failed("auto", "No region selected")
            /\ thr' = [thr EXCEPT ![c].pc = "returned"]
       ELSE /\ thr' = [thr EXCEPT ![c].pc = "capturing", ![c].region = region]
            /\ UNCHANGED scrollResult
    /\ UNCHANGED <<scroll_capturing, scroll_frames, scroll_offsets,
                   scroll_stitched, page, scrollTop, accepted, mutex>>
    /\ UNCHANGED recVars
    /\ UNCHANGED expVars

\* lines 93-106: the screen is captured with no lock held; seq numbers the
\* captures in the order they are made
AutoCapture(c) ==
    /\ thr[c].pc = "capturing"
    /\ \E captured \in BOOLEAN :
          IF ~captured
          THEN /\ scrollResult' = Failed("auto", "capture")
               /\ thr' = [thr EXCEPT ![c].pc = "returned"]
          ELSE /\ thr' = [thr EXCEPT
                             ![c].pc = "captured",
                             ![c].frame =
                                 CaptureRegion(RegionSize(thr[c].region),
                                               page, scrollTop),
                             ![c].seq = Captures + 1]
               /\ UNCHANGED scrollResult
    /\ UNCHANGED <<scroll_capturing, scroll_frames, scroll_offsets,
                   scroll_stitched, page, scrollTop, accepted, mutex>>
    /\ UNCHANGED recVars
    /\ UNCHANGED expVars

\* lines 108-154, one critical section: the frame is compared with the last
\* frame of the history, stitched onto the composite and pushed; slot is
\* the place in scroll_frames it was pushed to
AutoCommit(c) ==
    /\ thr[c].pc = "captured"
    /\ \E preview \in BOOLEAN :
          IF scroll_frames = <<>>
          THEN /\ scrollResult' = Failed("auto", "No previous frame")
               /\ thr' = [thr EXCEPT ![c].pc = "returned"]
               /\ UNCHANGED <<scroll_frames, scroll_offsets, scroll_stitched,
                              accepted>>
          ELSE \E scroll_delta \in
                     {DetectScrollDelta(scroll_frames[Len(scroll_frames)],
                                        thr[c].frame)} :
             IF Abs(scroll_delta) < MinDelta
             THEN /\ scrollResult' =
                        IF scroll_stitched = <<>> THEN ReturnedNone("auto")
                        ELSE IF preview
                        THEN Returned("auto", Len(scroll_frames),
                                      scroll_stitched[1].h)
                        ELSE Failed("auto", "preview")
                  /\ thr' = [thr EXCEPT ![c].pc = "returned"]
                  /\ UNCHANGED <<scroll_frames, scroll_offsets,
                                 scroll_stitched, accepted>>
             ELSE \E stitched \in
                        {StitchScrollImage(scroll_stitched[1], thr[c].frame,
                                           scroll_delta)} :
                IF ~stitched.ok
                THEN /\ scrollResult' = Failed("auto", "Frame width mismatch")
                     /\ thr' = [thr EXCEPT ![c].pc = "returned"]
                     /\ UNCHANGED <<scroll_frames, scroll_offsets,
                                    scroll_stitched, accepted>>
                ELSE /\ scroll_frames' = Append(scroll_frames, thr[c].frame)
                     /\ scroll_offsets' =
                           Append(scroll_offsets,
                                  (IF scroll_offsets = <<>> THEN 0
                                   ELSE scroll_offsets[Len(scroll_offsets)])
                                     + scroll_delta)
                     /\ scroll_stitched' = <<stitched.image>>
                     /\ accepted' = Append(accepted, scroll_delta)
                     /\ thr' = [thr EXCEPT ![c].pc = "returned",
                                           ![c].slot = Len(scroll_frames) + 1]
                     /\ scrollResult' =
                           IF preview
                           THEN Returned("auto", Len(scroll_frames) + 1,
                                         stitched.image.h)
                           ELSE Failed("auto", "preview")
    /\ UNCHANGED <<scroll_capturing, page, scrollTop, mutex>>
    /\ UNCHANGED recVars
    /\ UNCHANGED expVars

\* a call holds a frame it captured and has not reached its update
InFlightCall == \E c \in Callers : thr[c].pc = "captured"

\* the calls that hold a captured frame when the session is cleared: stale
\* marks them
Outlived(t) ==
    [c \in Callers |->
        IF t[c].pc = "captured" THEN [t[c] EXCEPT !.stale = TRUE] ELSE t[c]]

\* cancel_scroll_capture while a call is in flight: one critical section
CancelInFlight ==
    /\ InFlightCall
    /\ scroll_capturing
    /\ scroll_capturing' = FALSE
    /\ scroll_frames' = <<>>
    /\ scroll_offsets' = <<>>
    /\ scroll_stitched' = <<>>
    /\ scrollResult' = ReturnedNone("cancel")
    /\ thr' = Outlived(thr)
    /\ UNCHANGED <<page, scrollTop, accepted, mutex>>
    /\ UNCHANGED recVars
    /\ UNCHANGED expVars

\* finish_scroll_capture of a session with a composite while a call is in
\* flight: the critical section of lines 271-284, then the save
FinishInFlight ==
    /\ InFlightCall
    /\ scroll_capturing
    /\ scroll_stitched # <<>>
    /\ scroll_stitched' = <<>>
    /\ scroll_capturing' = FALSE
    /\ scroll_frames' = <<>>
    /\ scroll_offsets' = <<>>
    /\ \E saved \in BOOLEAN :
          scrollResult' =
              IF saved THEN ReturnedNone("finish") ELSE Failed("finish", "save")
    /\ thr' = Outlived(thr)
    /\ UNCHANGED <<page, scrollTop, accepted, mutex>>
    /\ UNCHANGED recVars
    /\ UNCHANGED expVars

\* a region is selected and no session started; every caller is about to
\* make its call
ConcurrentInit ==
    /\ SessionIdle
    /\ region \in Regions
    /\ page \in Pages
    /\ scroll_capturing = FALSE
    /\ scroll_frames = <<>>
    /\ scroll_offsets = <<>>
    /\ scroll_stitched = <<>>
    /\ scrollTop = 0
    /\ accepted = <<>>
    /\ scrollResult = NoResult
    /\ mutex = "free"
    /\ thr = [c \in Callers |->
                 [pc |-> "call", region |-> NoRegion, frame |-> NoImage,
                  seq |-> 0, slot |-> 0, stale |-> FALSE]]

ConcurrentNext ==
    \/ (~scroll_capturing /\ StartScrollCapture)
    \/ ScrollPage
    \/ \E c \in Callers : AutoCheck(c)
    \/ \E c \in Callers : AutoCapture(c)
    \/ \E c \in Callers : AutoCommit(c)

\* one session, the user scrolling, and one call of each caller
ConcurrentSpec == ConcurrentInit /\ [][ConcurrentNext]_vars

\* a session over the text page is cancelled or finished while the call of
\* one caller holds its frame, and another session is started
RestartInit == ConcurrentInit /\ page = "text"

RestartNext ==
    \/ (~scroll_capturing /\ StartScrollCapture)
    \/ ScrollPage
    \/ AutoCheck("a")
    \/ AutoCapture("a")
    \/ AutoCommit("a")
    \/ CancelInFlight
    \/ FinishInFlight

RestartSpec == RestartInit /\ [][RestartNext]_vars

(***************************************************************************)
(* The recording session                                                   *)
(***************************************************************************)

\* the loop body past the poll: capturing, pushing or sleeping
LoopCapturing(l) == pc[l] \in {"capture", "push", "sleep"}

\* C1 (as stated): a frame is appended to frames only while the recording
\* flag is true; no frame is pushed after stop_recording cleared the flag.
C1_AppendOnlyWhileFlagSet ==
    [][Len(frames') > Len(frames) => recording]_vars

\* C1 (amended): a frame is appended only by a capture loop whose poll at the
\* start of that same tick read the recording flag as true, and what is
\* appended is the image that loop captured in that tick; the flag may have
\* been cleared between the poll and the push.
C1_AppendOnlyAfterPollSawFlag ==
    [][Len(frames') > Len(frames) =>
          \E l \in Loops : /\ pc[l] = "push"
                           /\ pc'[l] = "sleep"
                           /\ sawRecording[l]
                           /\ img[l].sess = l
                           /\ frames' = Append(frames, img[l])]_vars

\* C1 witness: the flag is clear and the last frame of the buffer was pushed
\* by a loop whose tick began with the flag set.
C1_Witness ==
    /\ ~recording
    /\ Len(frames) > 0
    /\ \E l \in Loops : /\ pc[l] = "sleep"
                        /\ sawRecording[l]
                        /\ frames[Len(frames)].sess = l

\* C2 (as stated): every loop spawned by a start_recording that returned Ok
\* emits 'recording-stopped' exactly once, so a loop that has ended has
\* emitted it once, and no loop appends a frame after emitting it.
C2_StoppedExactlyOnce ==
    \A l \in Loops : /\ stoppedEmits[l] <= 1
                     /\ ~lateAppend[l]
                     /\ (pc[l] = "exited" => stoppedEmits[l] = 1)

\* C3 (as stated): at most one capture loop is in its loop body at any time.
C3_AtMostOneLoop ==
    Cardinality({l \in Loops : LoopCapturing(l)}) <= 1

\* C4: once the flag is clear while a loop is running, that loop emits
\* 'recording-stopped' once and ends, unless start_recording sets the flag
\* again first.
C4_StopLeadsToExit ==
    \A l \in Loops :
        (LoopRunning(l) /\ ~recording)
            ~> ((pc[l] = "exited" /\ stoppedEmits[l] = 1) \/ recording)

\* C4 witness: the last loop spawned has ended after emitting its event, with
\* the flag clear.
C4_Witness ==
    /\ ~recording
    /\ nspawned > 0
    /\ pc[nspawned] = "exited"
    /\ stoppedEmits[nspawned] = 1

\* C5: a capture that fails (the loop leaves the capture without an image)
\* changes neither frames nor the flag, emits no 'recording-state' and takes
\* the loop to its sleep and next tick; a loop past its startup check leaves
\* the loop only from the poll, having read the flag as clear.
C5_CaptureFailureNonFatal ==
    [][\A l \in Loops :
          /\ (pc[l] = "capture" /\ pc'[l] # "capture" /\ img'[l] = NoFrame)
                => /\ frames' = frames
                   /\ recording' = recording
                   /\ stateEmits' = stateEmits
                   /\ pc'[l] = "sleep"
          /\ (pc[l] \in Running /\ pc'[l] \notin Running)
                => /\ pc[l] = "poll"
                   /\ ~recording
                   /\ pc'[l] = "cleanup"]_vars

\* C5 witness: a loop sleeps after a tick although no capture has ever
\* succeeded: its capture failed and it is still running.
C5_Witness ==
    /\ clock = 0
    /\ stateEmits = 0
    /\ recording
    /\ \E l \in Loops : pc[l] = "sleep" /\ img[l] = NoFrame

\* C6: a start_recording call made while a recording is active or no region
\* is selected returns the matching error and changes neither the flag nor
\* frames, and spawns no loop.
C6_StartPreconditionErrors ==
    [][(StartRecording /\ (recording \/ region = NoRegion)) =>
          /\ startResult' = IF recording THEN "Already recording"
                            ELSE "No region selected"
          /\ recording' = recording
          /\ frames' = frames
          /\ nspawned' = nspawned
          /\ pc' = pc]_vars

\* C6 witness: start_recording has returned "Already recording" and the
\* frames recorded so far are still in the buffer.
C6_Witness ==
    /\ startResult = "Already recording"
    /\ recording
    /\ Len(frames) > 0

\* C7 (as stated): frames are in capture order, and every frame in the buffer
\* was captured by the loop of the most recent start_recording.
C7_FramesInCaptureOrder ==
    /\ \A i, j \in DOMAIN frames : i < j => frames[i].t < frames[j].t
    /\ \A i \in DOMAIN frames : frames[i].sess = nspawned

(***************************************************************************)
(* The export                                                              *)
(***************************************************************************)

IsProgress(e) == e.ev = "progress"
IsComplete(e) == e.ev = "complete"
ProgressEvents == SelectSeq(exportLog, IsProgress)
CompleteEvents == SelectSeq(exportLog, IsComplete)
ExportRunning == epc \in {"trim", "mkdir", "create", "encode"}
ExportSucceeded ==
    /\ epc = "done"
    /\ exportLog # <<>>
    /\ exportLog[Len(exportLog)] = Complete(TRUE, "none")
ExportFailed ==
    /\ epc = "done"
    /\ exportLog # <<>>
    /\ IsComplete(exportLog[Len(exportLog)])
    /\ ~exportLog[Len(exportLog)].success

\* what the invocation has to encode, from the buffer as it was at the call
FinalAtCall == FinalFrames(callFrames, config)

C8_FromTheCallSnapshot ==
    /\ finalFrames # <<>> => finalFrames = FinalAtCall
    /\ Len(encoded) <= Len(FinalAtCall)
    /\ \A i \in DOMAIN encoded : encoded[i] = FinalAtCall[i]
    /\ \A k \in DOMAIN ProgressEvents :
          ProgressEvents[k].total = Len(FinalAtCall)
    /\ ExportSucceeded => encoded = FinalAtCall

C8_SessionAndExportApart ==
    /\ ((\E cfg \in Configs : ExportGif(cfg)) \/ ExportStep)
          => frames' = frames
    /\ (ExportRunning /\ frames' # frames)
          => /\ allFrames' = allFrames
             /\ finalFrames' = finalFrames
             /\ encoded' = encoded
             /\ exportLog' = exportLog

\* C8: the frames an export encodes and the total of its progress events are
\* those of the buffer as it was when export_gif was called; no step of
\* export_gif or of its thread changes the session's frames, and a change of
\* the session's frames while the thread runs (start_recording, a push of the
\* capture loop, discard_recording) changes nothing of the export.
C8_ExportIsolated ==
    [] C8_FromTheCallSnapshot /\ [][C8_SessionAndExportApart]_vars

\* C8 witness: an export has succeeded with at least two frames although the
\* session's buffer is no longer what it was at the call.
C8_Witness ==
    /\ ExportSucceeded
    /\ Len(encoded) >= 2
    /\ frames # callFrames

\* C9: an export_gif invocation emits no 'export-complete' while its thread
\* runs, exactly one once it is over, and that event is the last of the
\* invocation: no 'export-progress' follows it.
C9_CompleteExactlyOnce ==
    /\ Len(CompleteEvents) <= 1
    /\ ExportRunning => Len(CompleteEvents) = 0
    /\ epc = "done" => Len(CompleteEvents) = 1
    /\ \A k \in DOMAIN exportLog :
          IsComplete(exportLog[k]) => k = Len(exportLog)

\* C9 witness: an invocation ended by an encoder error after a frame had
\* been reported.
C9_Witness ==
    /\ ExportFailed
    /\ Len(ProgressEvents) >= 1
    /\ exportLog[Len(exportLog)].error = "encode"

\* C10: the k-th 'export-progress' of an export carries current = k and
\* total = the number of final frames; a successful export has reported
\* every frame, current = total exactly once and as the event right before
\* 'export-complete'; a failed one has never reported current = total.
C10_ProgressCounts ==
    /\ \A k \in DOMAIN ProgressEvents :
          /\ ProgressEvents[k].current = k
          /\ ProgressEvents[k].total = Len(finalFrames)
    /\ Len(ProgressEvents) = Len(encoded)
    /\ ExportSucceeded =>
          /\ Len(ProgressEvents) = Len(finalFrames)
          /\ Len(exportLog) >= 2
          /\ exportLog[Len(exportLog) - 1] =
                Progress(Len(finalFrames), Len(finalFrames))
          /\ Cardinality({k \in DOMAIN ProgressEvents :
                ProgressEvents[k].current = ProgressEvents[k].total}) = 1
    /\ ExportFailed =>
          \A k \in DOMAIN ProgressEvents :
              ProgressEvents[k].current # ProgressEvents[k].total

\* C10 witness: a successful PingPong export of three frames: four progress
\* events.
C10_Witness ==
    /\ ExportSucceeded
    /\ config.loop_mode = "pingpong"
    /\ Len(ProgressEvents) = 4

(***************************************************************************)
(* The export transform                                                    *)
(***************************************************************************)

\* the export_gif call under way or last returned asked for a range that is
\* empty once both ends are clamped to the length of the buffer it saw
EmptyRangeCall ==
    /\ epc # "idle"
    /\ TrimEnd(callFrames, config) <= TrimStart(callFrames, config)

\* the call failed with why and nothing else happened: one 'export-complete'
\* {success: false}, no 'export-progress', no frame encoded, no output file
FailedOutright(why) ==
    /\ exportLog = <<Complete(FALSE, why)>>
    /\ encoded = <<>>
    /\ outFile = "none"

\* C11 (as stated): export_gif with start_frame >= end_frame after clamping
\* both to the buffer length fails with the invalid-range reason in a single
\* 'export-complete' {success: false}, encodes no frame, creates no output
\* file and emits no 'export-progress'.
C11_EmptyRangeIsInvalidRange ==
    EmptyRangeCall =>
        /\ epc \in {"trim", "done"}
        /\ epc = "trim" => exportLog = <<>> /\ encoded = <<>> /\ outFile = "none"
        /\ epc = "done" => FailedOutright("Invalid frame range")

\* C11 (amended): on a non-empty buffer, export_gif with start_frame >=
\* end_frame after clamping fails with the invalid-range reason; on an empty
\* buffer it fails with the reason "No frames to export"; either way in a
\* single 'export-complete' {success: false}, with no frame encoded, no output
\* file created and no 'export-progress' emitted.
C11_EmptyRangeFailsOutright ==
    EmptyRangeCall =>
        /\ epc \in {"trim", "done"}
        /\ epc = "trim" => exportLog = <<>> /\ encoded = <<>> /\ outFile = "none"
        /\ epc = "done" =>
              IF callFrames = <<>>
              THEN FailedOutright("No frames to export")
              ELSE FailedOutright("Invalid frame range")

\* C11 witness: a call on a non-empty buffer whose clamped range was empty
\* has failed with the invalid-range reason.
C11_Witness ==
    /\ EmptyRangeCall
    /\ callFrames # <<>>
    /\ epc = "done"
    /\ FailedOutright("Invalid frame range")

\* the export thread is past its trim and sampling of a non-empty range
Resampled == epc \in {"mkdir", "create", "encode"}

\* the trimmed frames of the call, and target_count as the real number
\* max(1, round(n / capture_fps / speed * target_fps)) with speed clamped to
\* [0.1, 10]
CallTrimmed == Trimmed(callFrames, config)
RealTargetCount(n, cfg) ==
    Max(1, RoundDiv(n * cfg.target_fps * ClampSpeed(cfg)[2],
                    RecordingFps * ClampSpeed(cfg)[1]))

\* C12 (as stated): with n trimmed frames, target_count = max(1, round((n /
\* capture_fps / speed) * target_fps)), speed clamped to [0.1, 10]; if
\* target_count >= n the output is exactly the n trimmed frames, otherwise it
\* has exactly target_count frames, taken at indices round(i*(n-1) /
\* (target_count-1)) for i in 0..target_count (index 0 when target_count = 1),
\* so the first is index 0 and, for target_count >= 2, the last is index n-1.
C12_TemporalResample ==
    Resampled =>
        LET n == Len(CallTrimmed)
            target == RealTargetCount(n, config)
        IN  IF target >= n THEN sampledFrames = CallTrimmed
            ELSE /\ Len(sampledFrames) = target
                 /\ \A i \in 0..(target - 1) :
                       sampledFrames[i + 1] =
                           CallTrimmed[(IF target = 1 THEN 0
                                        ELSE RoundDiv(i * (n - 1), target - 1))
                                       + 1]
                 /\ sampledFrames[1] = CallTrimmed[1]
                 /\ target >= 2 => sampledFrames[target] = CallTrimmed[n]

\* C13: with speed = 1 and target_fps = capture_fps the temporal resample is
\* the identity: for every non-empty trimmed range the sampled sequence equals
\* the trimmed input, frame for frame and in the same order.
C13_ResampleIdentity ==
    /\ Resampled
    /\ config.speedNum = config.speedDen
    /\ config.target_fps = RecordingFps
    => /\ CallTrimmed # <<>>
       /\ sampledFrames = CallTrimmed

\* C13 witness: an export of the longest buffer at speed 1 and the capture
\* rate has sampled its frames.
C13_Witness ==
    /\ Resampled
    /\ config.speedNum = config.speedDen
    /\ config.target_fps = RecordingFps
    /\ Len(CallTrimmed) = MaxFrames
    /\ sampledFrames = CallTrimmed

\* C14: PingPong on a sequence f[0..N-1] with N > 2 gives f[0], ..., f[N-1],
\* f[N-2], ..., f[1], of length 2N-2 (5 frames give 8, the appended indices
\* being 3, 2, 1); PingPong with N <= 2 and Once, Infinite or any unrecognised
\* loop_mode pass the sequence through unchanged.
C14_LoopModeExpansion ==
    Resampled =>
        LET N == Len(scaledFrames)
        IN  IF config.loop_mode = "pingpong" /\ N > 2
            THEN /\ Len(finalFrames) = 2 * N - 2
                 /\ \A i \in 1..N : finalFrames[i] = scaledFrames[i]
                 /\ \A j \in 1..(N - 2) :
                       finalFrames[N + j] = scaledFrames[N - j]
            ELSE finalFrames = scaledFrames

\* C14 witness: a PingPong export of five frames holds eight, the last three
\* being the frames of indices 3, 2, 1.
C14_Witness ==
    /\ Resampled
    /\ config.loop_mode = "pingpong"
    /\ Len(scaledFrames) = 5
    /\ Len(finalFrames) = 8
    /\ finalFrames[6] = scaledFrames[4]
    /\ finalFrames[7] = scaledFrames[3]
    /\ finalFrames[8] = scaledFrames[2]
    /\ scaledFrames[2] # scaledFrames[4]

\* C15 (as stated): for every frame buffer and every ExportConfig, the
\* frame_count estimate_export_size returns equals the number of frames
\* export_gif encodes for the same config, also when speed < 1 or target_fps >
\* capture_fps and when the computed target count rounds to 0.
C15_EstimateMatchesExport ==
    /\ ExportSucceeded
    /\ estimate # NoEstimate
    /\ frames = callFrames
    => estimate.frame_count = Len(encoded)

\* C16 (as stated): for every target_fps >= 1 the delay written to each
\* encoded frame is max(1, round(100 / target_fps)) centiseconds, independent
\* of capture_fps and speed.
C16_DelayRounded ==
    config.target_fps >= 1 =>
        \A i \in DOMAIN delays :
            delays[i] = Max(1, RoundDiv(100, config.target_fps))

\* C16 (amended): for every target_fps >= 1 the delay written to each encoded
\* frame is max(1, floor(100 / target_fps)) centiseconds (the quotient is
\* truncated, not rounded), independent of capture_fps and speed; every
\* encoded frame carries a delay.
C16_DelayTruncated ==
    /\ Len(delays) = Len(encoded)
    /\ config.target_fps >= 1 =>
          \A i \in DOMAIN delays :
              delays[i] = Max(1, 100 \div config.target_fps)

\* C16 witness: an export at 60 frames per second has written a frame with a
\* delay of one centisecond, where the rounded quotient is two.
C16_Witness ==
    /\ config.target_fps = 60
    /\ delays # <<>>
    /\ delays[1] = 1
    /\ RoundDiv(100, config.target_fps) = 2

\* C17 (as stated): when |output_scale - 1| > 0.01 every sampled frame of size
\* w x h is resized to (round(w*scale), round(h*scale)), and otherwise every
\* frame passes through with its dimensions unchanged; all frames handed to
\* the encoder have the same dimensions as the encoder's canvas.
C17_SpatialScale ==
    /\ Resampled =>
          IF Abs(100 - ClampScale(config)) > 1
          THEN /\ Len(scaledFrames) = Len(sampledFrames)
               /\ \A i \in DOMAIN scaledFrames :
                     /\ scaledFrames[i].w =
                           RoundDiv(sampledFrames[i].w * ClampScale(config), 100)
                     /\ scaledFrames[i].h =
                           RoundDiv(sampledFrames[i].h * ClampScale(config), 100)
          ELSE scaledFrames = sampledFrames
    /\ \A i \in DOMAIN encoded : <<encoded[i].w, encoded[i].h>> = canvas


(***************************************************************************)
(* The scroll session                                                      *)
(***************************************************************************)

\* C18: in every state of the scroll session there are as many offsets as
\* frames, and the first offset, when there is one, is 0
C18_FramesMatchOffsets ==
    /\ Len(scroll_frames) = Len(scroll_offsets)
    /\ (scroll_offsets # <<>> => scroll_offsets[1] = 0)

\* a session of three frames whose last offset is not 0
C18_Witness ==
    /\ scroll_capturing
    /\ Len(scroll_frames) = 3
    /\ Len(scroll_offsets) = 3
    /\ scroll_offsets[1] = 0
    /\ scroll_offsets[3] # 0

\* the rows the accepted steps added
AcceptedRows == SumSeq([i \in DOMAIN accepted |-> Abs(accepted[i])])

\* C19: while a composite exists, its height is the first frame's height
\* plus |delta| of every accepted step since start_scroll_capture, the last
\* offset is the signed sum of the accepted deltas, and a progress returned
\* to the caller carries the composite's height
C19_CompositeHeight ==
    scroll_stitched # <<>> =>
        /\ scroll_frames # <<>>
        /\ scroll_stitched[1].h = scroll_frames[1].h + AcceptedRows
        /\ Len(scroll_stitched[1].rows) = scroll_stitched[1].h
        /\ scroll_offsets[Len(scroll_offsets)] = SumSeq(accepted)
        /\ (scrollResult.ok /\ scrollResult.some =>
               scrollResult.total_height = scroll_stitched[1].h)

\* a scroll down and a scroll up were both accepted and the progress of the
\* second was returned
C19_Witness ==
    /\ scroll_stitched # <<>>
    /\ Len(accepted) = 2
    /\ accepted[1] > 0
    /\ accepted[2] < 0
    /\ scrollResult.op = "auto"
    /\ scrollResult.ok /\ scrollResult.some
    /\ scrollResult.total_height = RegionHeight + AcceptedRows

\* capture_scroll_frame_auto captures the very pixels of the last frame
CapturesIdenticalFrame ==
    /\ scroll_capturing
    /\ region # NoRegion
    /\ scroll_frames # <<>>
    /\ CaptureArea(page, scrollTop) = scroll_frames[Len(scroll_frames)]
    /\ CaptureScrollFrameAuto
    /\ scrollResult'.error # "capture"

\* C20: for two frames with identical pixels detect_scroll_delta is 0, and
\* the capture step leaves the composite, the frames and the offsets as
\* they were
C20_IdenticalFramesNoOp ==
    [][CapturesIdenticalFrame =>
          /\ DetectScrollDelta(scroll_frames[Len(scroll_frames)],
                               CaptureArea(page, scrollTop)) = 0
          /\ UNCHANGED <<scroll_stitched, scroll_frames, scroll_offsets>>]_vars


(***************************************************************************)
(* Scroll detection and stitching                                          *)
(***************************************************************************)

\* the two frames handed to detect_scroll_delta and what it returned
DetectPrev == scroll_frames[1]
DetectCurr == scroll_frames[2]
Detected == scroll_offsets[1]

\* curr is prev scrolled down by d rows: row y of curr is row y + d of prev
\* wherever both exist
ShiftedDown(prev, curr, d) ==
    /\ prev.w = curr.w
    /\ prev.h = curr.h
    /\ \A y \in 1..(curr.h - d) : curr.rows[y] = prev.rows[y + d]

\* C21: when curr is prev scrolled down by d rows, 10 <= d < height / 2,
\* detect_scroll_delta returns a positive value within 5 pixels of d
C21_DetectsScrollDown ==
    Len(scroll_frames) = 2 =>
        \A d \in MinOffset..DetectPrev.h :
            (2 * d < DetectPrev.h /\ ShiftedDown(DetectPrev, DetectCurr, d)) =>
                /\ Detected > 0
                /\ Abs(Detected - d) <= OffsetStep


\* the decision rule in its own words: the candidate offsets, the least
\* score of a direction over them and the first offset that attains it
Candidates(h) ==
    {o \in MinOffset..(Min(h \div 2, MaxSearchRange) - 1) :
        (o - MinOffset) % OffsetStep = 0}

DownScore(prev, curr, o) == CompareStrips(prev, curr, o, 0, prev.w, StripHeight)
UpScore(prev, curr, o) == CompareStrips(prev, curr, 0, o, prev.w, StripHeight)

LeastOf(scores) == CHOOSE m \in scores : \A n \in scores : m <= n

FirstAt(cand, score, least) ==
    CHOOSE o \in cand : score[o] = least /\ \A q \in cand : score[q] = least => o <= q

\* best_down and best_up, and T
BestDown(prev, curr) ==
    LeastOf({DownScore(prev, curr, o) : o \in Candidates(prev.h)})
BestUp(prev, curr) ==
    LeastOf({UpScore(prev, curr, o) : o \in Candidates(prev.h)})
Threshold(prev) == prev.w * StripHeight * ThresholdPerPixel

Decision(prev, curr) ==
    IF prev.w # curr.w \/ prev.h # curr.h \/ Candidates(prev.h) = {} THEN 0
    ELSE LET cand == Candidates(prev.h)
             down == [o \in cand |-> DownScore(prev, curr, o)]
             up == [o \in cand |-> UpScore(prev, curr, o)]
             best_down == BestDown(prev, curr)
             best_up == BestUp(prev, curr)
         IN  IF best_down < Threshold(prev) /\ best_down <= best_up
             THEN FirstAt(cand, down, best_down)
             ELSE IF best_up < Threshold(prev) THEN -FirstAt(cand, up, best_up)
             ELSE 0

\* C22: detect_scroll_delta returns the best scroll-down offset iff
\* best_down < T and best_down <= best_up, else minus the best scroll-up
\* offset iff best_up < T, else 0, a tie below the threshold going to
\* scroll-down; frames of different dimensions, or too short for any
\* candidate offset, give 0
C22_DecisionRule ==
    Len(scroll_frames) = 2 => Detected = Decision(DetectPrev, DetectCurr)

\* frames of one size whose best scores tie below the threshold: the
\* scroll-down offset is returned
C22_Witness ==
    /\ Len(scroll_frames) = 2
    /\ DetectPrev.w = DetectCurr.w
    /\ DetectPrev.h = DetectCurr.h
    /\ Candidates(DetectPrev.h) # {}
    /\ BestDown(DetectPrev, DetectCurr) = BestUp(DetectPrev, DetectCurr)
    /\ BestDown(DetectPrev, DetectCurr) < Threshold(DetectPrev)
    /\ Detected >= MinOffset


\* a step of the stitching runs that replaced the composite, and the frame
\* and the delta it was made with
Stitches == StitchStep /\ scroll_stitched' # scroll_stitched
StitchedFrame == scroll_frames'[Len(scroll_frames')]
StitchedDelta == accepted'[Len(accepted')]
StitchedRows == Min(Abs(StitchedDelta), StitchedFrame.h)

\* C23: with equal widths and delta # 0, stitch_scroll_image returns an
\* image of the same width and of height base.height + min(|delta|,
\* new_frame.height), in both directions; with |delta| >= new_frame.height
\* the whole frame is concatenated
C23_StitchedSize ==
    [][StitchStep =>
          IF scroll_stitched[1].w = CaptureArea(page, scrollTop).w
          THEN /\ Stitches
               /\ StitchedFrame = CaptureArea(page, scrollTop)
               /\ scroll_stitched'[1].w = scroll_stitched[1].w
               /\ scroll_stitched'[1].h = scroll_stitched[1].h + StitchedRows
               /\ Len(scroll_stitched'[1].rows) = scroll_stitched'[1].h
               /\ \A y \in 1..scroll_stitched'[1].h :
                     Len(scroll_stitched'[1].rows[y]) = scroll_stitched[1].w
               /\ (Abs(StitchedDelta) >= StitchedFrame.h =>
                      scroll_stitched'[1].rows \in
                          {scroll_stitched[1].rows \o StitchedFrame.rows,
                           StitchedFrame.rows \o scroll_stitched[1].rows})
          ELSE UNCHANGED scroll_stitched]_vars

\* a frame shorter than the composite was concatenated whole onto it
C23_Witness ==
    /\ Len(accepted) = 1
    /\ Abs(accepted[1]) > scroll_frames[2].h
    /\ scroll_frames[2].h < scroll_frames[1].h
    /\ scroll_stitched[1].h = scroll_frames[1].h + scroll_frames[2].h


\* C24: stitching only extends the composite: for delta > 0 its first
\* base.height rows are the old composite and the rows appended are the
\* bottom min(|delta|, h) rows of the new frame in order; for delta < 0 the
\* rows prepended are the top min(|delta|, h) rows of the new frame and the
\* old composite follows unchanged
C24_StitchOnlyExtends ==
    [][Stitches =>
          IF StitchedDelta > 0
          THEN /\ SubSeq(scroll_stitched'[1].rows, 1, scroll_stitched[1].h)
                     = scroll_stitched[1].rows
               /\ SubSeq(scroll_stitched'[1].rows, scroll_stitched[1].h + 1,
                         scroll_stitched'[1].h)
                     = SubSeq(StitchedFrame.rows,
                              StitchedFrame.h - StitchedRows + 1,
                              StitchedFrame.h)
          ELSE /\ SubSeq(scroll_stitched'[1].rows, 1, StitchedRows)
                     = SubSeq(StitchedFrame.rows, 1, StitchedRows)
               /\ SubSeq(scroll_stitched'[1].rows, StitchedRows + 1,
                         scroll_stitched'[1].h)
                     = scroll_stitched[1].rows]_vars

\* part of a frame was put before a composite whose rows it does not share
C24_Witness ==
    /\ Len(accepted) = 1
    /\ accepted[1] < 0
    /\ Abs(accepted[1]) < scroll_frames[2].h
    /\ scroll_stitched[1].h = scroll_frames[1].h + Abs(accepted[1])
    /\ scroll_stitched[1].rows[1] = scroll_frames[2].rows[1]
    /\ scroll_stitched[1].rows[1] # scroll_frames[1].rows[1]


(***************************************************************************)
(* The scroll session's steps                                              *)
(***************************************************************************)

\* capture_scroll_frame_auto gets its capture and has a frame to compare
\* it with
ComparesFrames ==
    /\ scrollResult'.op = "auto"
    /\ scroll_capturing
    /\ region # NoRegion
    /\ scroll_frames # <<>>
    /\ CaptureScrollFrameAuto
    /\ scrollResult'.error # "capture"

\* the delta of the capture against the last frame of the history
StepDelta ==
    DetectScrollDelta(scroll_frames[Len(scroll_frames)],
                      CaptureArea(page, scrollTop))

C26_WidthMismatchFails ==
    [][(ComparesFrames
          /\ CaptureArea(page, scrollTop).w # scroll_stitched[1].w) =>
          /\ scrollResult' = Failed("auto", "Frame width mismatch")
          /\ UNCHANGED <<scroll_frames, scroll_offsets, scroll_stitched,
                         scroll_capturing>>]_vars


\* the session proper
session == <<scroll_capturing, scroll_frames, scroll_offsets, scroll_stitched>>

\* C27: Idle -> Capturing -> Idle: start_scroll_capture is the only
\* operation that sets scroll_capturing; a capture step, accepted or
\* rejected, keeps it; finish and cancel clear it; a capture step or a
\* finish while Idle returns Err("Not in scroll capture mode") and leaves the
\* session unchanged
C27_SessionStateMachine ==
    [][/\ (~scroll_capturing /\ scroll_capturing' => StartScrollCapture)
       /\ (CaptureScrollFrameAuto => scroll_capturing' = scroll_capturing)
       /\ (FinishScrollCapture => ~scroll_capturing')
       /\ (CancelScrollCapture => ~scroll_capturing')
       /\ (~scroll_capturing /\ CaptureScrollFrameAuto =>
              /\ scrollResult' = Failed("auto", "Not in scroll capture mode")
              /\ UNCHANGED session)
       /\ (~scroll_capturing /\ FinishScrollCapture =>
              /\ scrollResult' = Failed("finish", "Not in scroll capture mode")
              /\ UNCHANGED session)]_vars


\* the composite is there for finish_scroll_capture to take
FinishTakes == scroll_capturing /\ scroll_stitched # <<>> /\ FinishScrollCapture

\* C28: after cancel_scroll_capture, or after finish_scroll_capture has
\* taken the composite, the session is cleared whole (scroll_capturing
\* false, no frames, no offsets, no composite); get_scroll_preview on a
\* session without composite returns an error; and the start_scroll_capture
\* that follows begins from an empty history: its session holds at most the
\* frame it captured itself, at offset 0
C28_ClearedSession ==
    [][/\ (CancelScrollCapture \/ FinishTakes =>
              session' = <<FALSE, <<>>, <<>>, <<>>>>)
       /\ (scroll_stitched = <<>> /\ GetScrollPreview =>
              scrollResult' = Failed("preview", "No scroll capture in progress"))
       /\ (region # NoRegion /\ StartScrollCapture =>
              \/ session' = <<TRUE, <<>>, <<>>, <<>>>>
              \/ session' = <<TRUE, <<CaptureArea(page, scrollTop)>>, <<0>>,
                              <<CaptureArea(page, scrollTop)>>>>)]_vars

\* a session that had accepted a step was finished or cancelled, and the
\* preview asked for afterwards was refused
C28_Witness ==
    /\ accepted # <<>>
    /\ session = <<FALSE, <<>>, <<>>, <<>>>>
    /\ scrollResult = Failed("preview", "No scroll capture in progress")


(***************************************************************************)
(* Threads and the lock                                                    *)
(***************************************************************************)

\* the thread is inside capture_area, or inside the encoder
Busy(t) == thr[t].pc \in {"capturing", "encoding"}

\* C29: no thread holds the session mutex while it captures the screen or
\* encodes a GIF: the capture loop, start_scroll_capture,
\* capture_scroll_frame_auto, save_screenshot and the export thread have
\* released the lock before capture_area / write_frame
C29_NoLockWhileBusy ==
    \A t \in DOMAIN thr : Busy(t) => mutex # t

\* the capture loop holds the lock for its push while three commands capture
\* and the export thread encodes
C29_Witness ==
    /\ DOMAIN thr = LockThreads
    /\ mutex = "loop"
    /\ thr["loop"].pc = "pushing"
    /\ Busy("start")
    /\ Busy("auto")
    /\ Busy("shot")
    /\ Busy("export")


\* the update of a call pushed its frame
Accepts(c) == AutoCommit(c) /\ scroll_frames' # scroll_frames

\* every accepted update computes its delta against the frame most recently
\* added to the history, and writes a composite that extends the composite
\* present immediately before its write
ExtendsInOrder ==
    \A c \in DOMAIN thr :
        Accepts(c) =>
            /\ accepted' =
                  Append(accepted,
                         DetectScrollDelta(scroll_frames[Len(scroll_frames)],
                                           thr[c].frame))
            /\ scroll_frames' = Append(scroll_frames, thr[c].frame)
            /\ scroll_stitched' =
                  <<StitchScrollImage(scroll_stitched[1], thr[c].frame,
                                      accepted'[Len(accepted')]).image>>

\* frames are in the history in the order in which they were captured
HistoryInCaptureOrder ==
    \A c, d \in DOMAIN thr :
        (thr[c].slot > 0 /\ thr[d].slot > 0 /\ thr[c].seq < thr[d].seq) =>
            thr[c].slot < thr[d].slot

\* C30: under concurrent capture_scroll_frame_auto calls every accepted
\* step computes its delta against the frame most recently added to the
\* history and extends the composite present immediately before its write,
\* and frames enter the history in the order in which they were captured
C30_OrderedUnderConcurrency ==
    [][ExtendsInOrder]_vars /\ []HistoryInCaptureOrder


\* the channel values compare_strips compares: strip_height rows, every 4th
\* column, three channels
SamplesCompared(prev) == StripHeight * ((prev.w + 3) \div 4) * 3

\* the score of the offset detect_scroll_delta returned
WinningScore ==
    IF Detected > 0 THEN DownScore(DetectPrev, DetectCurr, Detected)
    ELSE UpScore(DetectPrev, DetectCurr, -Detected)

\* C31: whenever detect_scroll_delta accepts an offset, the winning strip
\* score divided by the number of channel values compared (20 rows x every
\* 4th column x 3 channels) is at most 50
C31_AverageChannelDifference ==
    (Len(scroll_frames) = 2 /\ Detected # 0) =>
        WinningScore <= ThresholdPerPixel * SamplesCompared(DetectPrev)



\* C32: a capture step that detects no significant change between the last
\* frame of the history and the new capture (|delta| below 10) returns
\* Ok(None)
C32_NoChangeReturnsNone ==
    [][(ComparesFrames /\ Abs(StepDelta) < MinDelta) =>
          scrollResult' = ReturnedNone("auto")]_vars



\* C33: a start_scroll_capture that fails leaves the scroll session as it was
\* before the call, and never leaves it capturing with an empty history and
\* no composite
C33_FailedStartKeepsSession ==
    [][(scrollResult'.op = "start" /\ StartScrollCapture
          /\ ~scrollResult'.ok) =>
          /\ UNCHANGED session
          /\ ~(scroll_capturing' /\ scroll_frames' = <<>>
                 /\ scroll_stitched' = <<>>)]_vars



\* C34: a finish_scroll_capture that returns an error, the failure to save
\* the image included, loses nothing: the session still holds the composite
\* and is still capturing, so the finish can be tried again
C34_FailedFinishKeepsComposite ==
    [][(scrollResult'.op = "finish" /\ FinishTakes /\ ~scrollResult'.ok) =>
          /\ UNCHANGED scroll_stitched
          /\ scroll_capturing']_vars



InSearchRange(d, h) ==
    \/ d = 0
    \/ /\ MinOffset <= Abs(d)
       /\ Abs(d) < Min(h \div 2, MaxSearchRange)
       /\ (Abs(d) - MinOffset) % OffsetStep = 0

\* every offset the search tries, for every height of capture
OffsetsInSearchRange ==
    \A h \in 0..MaxHeight :
        \A k \in DOMAIN Offsets(h) :
            Offsets(h)[k] # 0 /\ InSearchRange(Offsets(h)[k], h)

\* C36: for every pair of frames detect_scroll_delta returns 0 or a value d
\* with 10 <= |d| < min(height / 2, 200) and |d| - 10 divisible by 5; so
\* |delta| < 10 holds exactly when delta is 0, and |delta| is below the
\* height of the new frame: the no-overlap branches of stitch_scroll_image
\* are not taken from capture_scroll_frame_auto
C36_DeltaOnTheGrid ==
    /\ OffsetsInSearchRange
    /\ Len(scroll_frames) = 2 =>
          /\ InSearchRange(Detected, DetectPrev.h)
          /\ (Abs(Detected) < MinDelta <=> Detected = 0)
          /\ (Detected # 0 => Abs(Detected) < DetectCurr.h)

\* detect_scroll_delta returned the last offset of the search for a pair of
\* 36-row frames
C36_Witness ==
    /\ Len(scroll_frames) = 2
    /\ Abs(Detected) = MinOffset + OffsetStep
    /\ Abs(Detected) + OffsetStep >= DetectPrev.h \div 2



\* the export down-sampled: target_frame_count is below trimmed_count
DownSampled ==
    /\ Resampled
    /\ TargetFrameCounts[Len(CallTrimmed), config] < Len(CallTrimmed)

\* C37: when the export down-samples (1 <= target_count < trimmed_count) the
\* source indices chosen are within [0, trimmed_count - 1] and strictly
\* increasing: no source frame is taken twice, and the frames that were
\* sampled are the frames at those indices
C37_SampledIndicesIncrease ==
    DownSampled =>
        \E n \in {Len(CallTrimmed)} :
        \E target \in {TargetFrameCounts[Len(CallTrimmed), config]} :
        \E src_idx \in {[i \in 0..(target - 1) |-> SampleIndex(i, n, target)]} :
            /\ target >= 1
            /\ Len(sampledFrames) = target
            /\ \A i \in 0..(target - 1) :
                  /\ src_idx[i] \in 0..(n - 1)
                  /\ sampledFrames[i + 1] = CallTrimmed[src_idx[i] + 1]
                  /\ i > 0 => src_idx[i - 1] < src_idx[i]
            /\ \A i, j \in 1..target :
                  i < j => sampledFrames[i].t < sampledFrames[j].t

\* the longest buffer was sampled down to fewer frames, more than one
C37_Witness ==
    /\ DownSampled
    /\ Len(CallTrimmed) = MaxFrames
    /\ Len(sampledFrames) > 2
    /\ sampledFrames[1] = CallTrimmed[1]
    /\ sampledFrames[2] # CallTrimmed[2]



(***************************************************************************)
(* Stopping and the recording flag                                         *)
(***************************************************************************)

\* the loop is between its poll and its push: a capture is in flight
InFlight(l) == pc[l] \in {"capture", "push"}

\* the flag is clear before and after the step: stop_recording has returned
\* and no start_recording has set the flag again
StaysStopped == ~recording /\ ~recording'

\* a step of a stopped session: a frame is appended only by a loop whose
\* capture was in flight, which goes to its sleep; no loop begins another
\* capture
StoppedStep(l) ==
    /\ (pc[l] = "push" /\ pc'[l] # "push") =>
          /\ sawRecording[l]
          /\ frames' = Append(frames, img[l])
          /\ pc'[l] = "sleep"
    /\ ~InFlight(l) => ~InFlight(l)'
    /\ Len(frames') > Len(frames) =>
          \E m \in Loops : pc[m] = "push" /\ pc'[m] = "sleep"

\* the poll that reads the flag as clear counts the frames of the buffer
\* under the same lock, and the event carries that count
StoppedCount(l) ==
    /\ (pc[l] = "poll" /\ pc'[l] = "cleanup") =>
          /\ frameCount'[l] = Len(frames)
          /\ frames' = frames
    /\ (pc[l] = "cleanup" /\ pc'[l] = "exited") =>
          /\ stoppedPayload'[l] = frameCount[l]
          /\ stoppedEmits'[l] = stoppedEmits[l] + 1

\* with one loop spawned, the count is the length of the buffer from the
\* poll on, through the emission, until the frames are discarded
SoleLoopCount ==
    (nspawned = 1 /\ frames # <<>>) =>
        /\ pc[1] = "cleanup" => frameCount[1] = Len(frames)
        /\ (pc[1] = "exited" /\ stoppedEmits[1] = 1) =>
              stoppedPayload[1] = Len(frames)

C39_StaleFrameDropped ==
    [][\A c \in DOMAIN thr :
          (thr[c].pc = "captured" /\ thr[c].stale /\ AutoCommit(c)) =>
              /\ ~scrollResult'.ok
              /\ UNCHANGED <<scroll_frames, scroll_offsets,
                             scroll_stitched>>]_vars



\* start_recording has returned Ok at least once
StartedOnce == nspawned > 0

\* C40: in every state after start_recording has returned Ok, a set recording
\* flag means that a capture loop is alive; when the loop spawned exits at
\* startup for want of a display, the session is not left marked as
\* recording
C40_FlagMeansLoopAlive ==
    (StartedOnce /\ recording) => \E l \in Loops : LoopAlive(l)

====
